---------------------------- MODULE Spec2Model ----------------------------
(***************************************************************************)
(* Finance Assistant integration for Home Assistant: the refresh           *)
(* coordinator (coordinator.py), the HTTP client it calls (api_client.py)  *)
(* and the metric functions that derive financial_health and               *)
(* risk_assessment from the fetched data; the config flow and the setup    *)
(* of a config entry (config_flow.py, __init__.py); the sensor and the     *)
(* calendar entities that read the coordinator's data (sensor.py,          *)
(* calendar.py, calendar/enhanced_calendar.py).                            *)
(*                                                                         *)
(* Python values are tagged records (PyNone, PyNum, PyStr, PyList,         *)
(* PyDict); the result of a Python call is Ok(value) or Raise(exception).  *)
(* Numbers are integers.  Scores that the code rounds to one decimal are   *)
(* kept in tenths (overall_score 55.0 is 550); the unrounded weighted sum  *)
(* is kept in hundredths.                                                  *)
(***************************************************************************)
EXTENDS Integers, Sequences, FiniteSets, TLC

VARIABLES
    pc,         \* position of the running _async_update_data, or "idle"
    heap,       \* the dict objects: reference -> dict (key -> value)
    data,       \* the reference held by the local variable `data`
    published,  \* the reference held by coordinator.data (NoRef before the first refresh)
    clock,      \* datetime.now()
    sent,       \* the outbound HTTP requests of the current refresh, in order
    outcome,    \* how the last completed refresh ended
    atStart,    \* what coordinator.data held when the running refresh started
    lastRead,   \* what the last adapter read of coordinator.data returned
    mpc,        \* metric engine applied to a bare input: "input", "health", "done"
    mIn,        \* that input (a snapshot in progress)
    mHealth,    \* result of _calculate_financial_health(mIn)
    mRisk,      \* result of _calculate_risk_assessment(mIn)
    mBalance,   \* result of _calculate_balance_score(mIn["account_summary"])
    gw,         \* the API client on its own: the client, its calls and what went out
    conv,       \* a sensor's value conversion: the value and what it was converted to
    cal,        \* a calendar entity: its source records and the events it produced
    rec,        \* the enhanced calendar generating the events of a recurring transaction
    flow,       \* the config flow: its step, the errors it shows, the config it holds
    entry,      \* the config entry the flow created
    hass        \* async_setup_entry: its position, hass.data, the platforms forwarded

vars == <<pc, heap, data, published, clock, sent, outcome, atStart, lastRead,
          mpc, mIn, mHealth, mRisk, mBalance, gw, conv, cal, rec, flow, entry,
          hass>>

refreshVars == <<pc, heap, data, published, clock, sent, outcome, atStart, lastRead>>
metricVars == <<mpc, mIn, mHealth, mRisk, mBalance>>
gatewayVars == <<gw>>
adapterVars == <<conv, cal, rec>>
setupVars == <<flow, entry, hass>>
otherVars == <<gw, conv, cal, rec, flow, entry, hass>>

\* a part of the integration that is not running
Off == [pc |-> "off"]
GatewayQuiet == gw = Off
AdaptersQuiet == conv = Off /\ cal = Off /\ rec = Off
SetupQuiet == flow = Off /\ entry = Off /\ hass = Off

---------------------------------------------------------------------------
(* Python values and call results *)

PyNone == [t |-> "none"]
PyNum(n) == [t |-> "num", n |-> n]
PyStr(s) == [t |-> "str", s |-> s]
PyList(l) == [t |-> "list", l |-> l]
PyDict(d) == [t |-> "dict", d |-> d]
EmptyDict == PyDict(<<>>)
EmptyList == PyList(<<>>)

Ok(v) == [ok |-> TRUE, v |-> v]
Raise(e) == [ok |-> FALSE, exc |-> e]
\* no call yet
NotRun == Raise("not run")

IsNum(v) == v.t = "num"
IsDict(v) == v.t = "dict"
IsList(v) == v.t = "list"

\* obj.get(key, default): AttributeError unless obj is a dict
DictGet(obj, key, default) ==
    IF ~IsDict(obj) THEN Raise("AttributeError")
    ELSE IF key \in DOMAIN obj.d THEN Ok(obj.d[key])
    ELSE Ok(default)

\* data.get(key, default) on the snapshot under construction, which is a dict
DataGet(d, key, default) == IF key \in DOMAIN d THEN d[key] ELSE default

\* the operand of an ordering comparison with a number: TypeError unless a number
AsNum(r) ==
    IF ~r.ok THEN r
    ELSE IF IsNum(r.v) THEN Ok(r.v.n)
    ELSE Raise("TypeError")

\* round(x, 1) of x given in hundredths, in tenths (round half to even)
Round1(h) ==
    LET q == h \div 10
        m == h % 10
    IN  IF m > 5 \/ (m = 5 /\ q % 2 = 1) THEN q + 1 ELSE q

---------------------------------------------------------------------------
(* coordinator.py: the metric functions *)

\* variant: a balance of exactly 0 scores 25
BalanceBodyZeroScores(account_summary) ==
    LET total_balance == AsNum(DictGet(account_summary, "total_balance", PyNum(0)))
    IN  IF ~total_balance.ok THEN total_balance
        ELSE IF total_balance.v < 0 THEN Ok(0)
        ELSE IF total_balance.v < 1000 THEN Ok(25)
        ELSE IF total_balance.v < 5000 THEN Ok(50)
        ELSE IF total_balance.v < 10000 THEN Ok(75)
        ELSE Ok(100)

BalanceBody(account_summary) ==
    LET total_balance == AsNum(DictGet(account_summary, "total_balance", PyNum(0)))
    IN  IF ~total_balance.ok THEN total_balance
        ELSE IF total_balance.v <= 0 THEN Ok(0)
        ELSE IF total_balance.v < 1000 THEN Ok(25)
        ELSE IF total_balance.v < 5000 THEN Ok(50)
        ELSE IF total_balance.v < 10000 THEN Ok(75)
        ELSE Ok(100)

_calculate_balance_score(account_summary) ==
    LET r == BalanceBody(account_summary) IN IF r.ok THEN r.v ELSE 0

\* cash_flow.get("next_30_days", {}).get("net", 0)
NetOf(cash_flow) ==
    LET next_30_days == DictGet(cash_flow, "next_30_days", EmptyDict)
    IN  IF ~next_30_days.ok THEN next_30_days
        ELSE DictGet(next_30_days.v, "net", PyNum(0))

\* financial_summary.get("current_month", {}).get("savings_rate", 0)
SavingsRateOf(financial_summary) ==
    LET current_month == DictGet(financial_summary, "current_month", EmptyDict)
    IN  IF ~current_month.ok THEN current_month
        ELSE DictGet(current_month.v, "savings_rate", PyNum(0))

\* variant: a net of exactly 0 scores 75
CashFlowBodyPositive(cash_flow) ==
    LET net_cash_flow == AsNum(NetOf(cash_flow))
    IN  IF ~net_cash_flow.ok THEN net_cash_flow
        ELSE IF net_cash_flow.v > 0 THEN Ok(100)
        ELSE IF net_cash_flow.v > -1000 THEN Ok(75)
        ELSE IF net_cash_flow.v > -2500 THEN Ok(50)
        ELSE IF net_cash_flow.v > -5000 THEN Ok(25)
        ELSE Ok(0)

CashFlowBody(cash_flow) ==
    LET net_cash_flow == AsNum(NetOf(cash_flow))
    IN  IF ~net_cash_flow.ok THEN net_cash_flow
        ELSE IF net_cash_flow.v >= 0 THEN Ok(100)
        ELSE IF net_cash_flow.v > -1000 THEN Ok(75)
        ELSE IF net_cash_flow.v > -2500 THEN Ok(50)
        ELSE IF net_cash_flow.v > -5000 THEN Ok(25)
        ELSE Ok(0)

_calculate_cash_flow_score(cash_flow) ==
    LET r == CashFlowBody(cash_flow) IN IF r.ok THEN r.v ELSE 0

ExpenseBody(financial_summary) ==
    LET savings_rate == AsNum(SavingsRateOf(financial_summary))
    IN  IF ~savings_rate.ok THEN savings_rate
        ELSE IF savings_rate.v >= 20 THEN Ok(100)
        ELSE IF savings_rate.v >= 15 THEN Ok(80)
        ELSE IF savings_rate.v >= 10 THEN Ok(60)
        ELSE IF savings_rate.v >= 5 THEN Ok(40)
        ELSE IF savings_rate.v >= 0 THEN Ok(20)
        ELSE Ok(0)

_calculate_expense_score(financial_summary) ==
    LET r == ExpenseBody(financial_summary) IN IF r.ok THEN r.v ELSE 0

RecurringBody(recurring_summary) ==
    LET obligation_ratio == AsNum(DictGet(recurring_summary, "obligation_ratio", PyNum(0)))
    IN  IF ~obligation_ratio.ok THEN obligation_ratio
        ELSE IF obligation_ratio.v <= 30 THEN Ok(100)
        ELSE IF obligation_ratio.v <= 40 THEN Ok(80)
        ELSE IF obligation_ratio.v <= 50 THEN Ok(60)
        ELSE IF obligation_ratio.v <= 60 THEN Ok(40)
        ELSE IF obligation_ratio.v <= 70 THEN Ok(20)
        ELSE Ok(0)

_calculate_recurring_score(recurring_summary) ==
    LET r == RecurringBody(recurring_summary) IN IF r.ok THEN r.v ELSE 0

\* variant: the cut points belong to the riskier level
RiskLevelStrict(score) ==
    IF score > 8000 THEN "low"
    ELSE IF score > 6000 THEN "moderate"
    ELSE IF score > 4000 THEN "high"
    ELSE IF score > 2000 THEN "very_high"
    ELSE "critical"

\* score is the unrounded weighted sum, in hundredths
_determine_risk_level(score) ==
    IF score >= 8000 THEN "low"
    ELSE IF score >= 6000 THEN "moderate"
    ELSE IF score >= 4000 THEN "high"
    ELSE IF score >= 2000 THEN "very_high"
    ELSE "critical"

\* variant: a score of exactly 50 draws its message too
RecommendationsUpTo50(balance_score, cash_flow_score, expense_score, recurring_score) ==
    LET recommendations ==
            (IF balance_score <= 50
                THEN <<"Build emergency fund to cover 3-6 months of expenses">> ELSE <<>>)
         \o (IF cash_flow_score <= 50
                THEN <<"Review upcoming expenses and adjust spending patterns">> ELSE <<>>)
         \o (IF expense_score <= 50
                THEN <<"Focus on increasing savings rate through expense reduction">> ELSE <<>>)
         \o (IF recurring_score <= 50
                THEN <<"Review recurring obligations and consider reducing non-essential expenses">>
                ELSE <<>>)
    IN  IF recommendations = <<>>
            THEN <<"Maintain current financial practices - you're doing great!">>
            ELSE recommendations

_generate_recommendations(balance_score, cash_flow_score, expense_score, recurring_score) ==
    LET recommendations ==
            (IF balance_score < 50
                THEN <<"Build emergency fund to cover 3-6 months of expenses">> ELSE <<>>)
         \o (IF cash_flow_score < 50
                THEN <<"Review upcoming expenses and adjust spending patterns">> ELSE <<>>)
         \o (IF expense_score < 50
                THEN <<"Focus on increasing savings rate through expense reduction">> ELSE <<>>)
         \o (IF recurring_score < 50
                THEN <<"Review recurring obligations and consider reducing non-essential expenses">>
                ELSE <<>>)
    IN  IF recommendations = <<>>
            THEN <<"Maintain current financial practices - you're doing great!">>
            ELSE recommendations

\* variant: the cash-flow rule is tried only when the critical-expenses rule is silent
AlertsFirstRuleWins(d) ==
    LET critical == AsNum(DictGet(DataGet(d, "critical_expenses", EmptyDict),
                                  "total_critical_amount", PyNum(0)))
        net == AsNum(NetOf(DataGet(d, "cash_flow_forecast", EmptyDict)))
        savings == AsNum(SavingsRateOf(DataGet(d, "financial_summary", EmptyDict)))
    IN  IF ~critical.ok THEN critical
        ELSE IF ~net.ok THEN net
        ELSE IF ~savings.ok THEN savings
        ELSE Ok(   (IF critical.v > 5000
                       THEN <<"High upcoming expenses detected - review budget">>
                       ELSE IF net.v < -2000
                       THEN <<"Negative cash flow projected for next 30 days">> ELSE <<>>)
                \o (IF savings.v < 10
                       THEN <<"Low savings rate - consider increasing income or reducing expenses">>
                       ELSE <<>>))

\* Ok(the alerts) or the exception a non-dict or non-number field raises
_generate_alerts(d) ==
    LET critical == AsNum(DictGet(DataGet(d, "critical_expenses", EmptyDict),
                                  "total_critical_amount", PyNum(0)))
        net == AsNum(NetOf(DataGet(d, "cash_flow_forecast", EmptyDict)))
        savings == AsNum(SavingsRateOf(DataGet(d, "financial_summary", EmptyDict)))
    IN  IF ~critical.ok THEN critical
        ELSE IF ~net.ok THEN net
        ELSE IF ~savings.ok THEN savings
        ELSE Ok(   (IF critical.v > 5000
                       THEN <<"High upcoming expenses detected - review budget">> ELSE <<>>)
                \o (IF net.v < -2000
                       THEN <<"Negative cash flow projected for next 30 days">> ELSE <<>>)
                \o (IF savings.v < 10
                       THEN <<"Low savings rate - consider increasing income or reducing expenses">>
                       ELSE <<>>))

\* a dict, as is the {} of the fallback record
_calculate_trends ==
    ("cash_flow_trend" :> "stable") @@ ("expense_trend" :> "stable")
        @@ ("savings_trend" :> "stable")

\* variant: the weights of the balance and recurring scores exchanged
WeightedSumSwapped(balance_score, cash_flow_score, expense_score, recurring_score) ==
    balance_score * 20 + cash_flow_score * 30 + expense_score * 25 + recurring_score * 25

\* the weighted sum of the four scores, in hundredths
WeightedSum(balance_score, cash_flow_score, expense_score, recurring_score) ==
    balance_score * 25 + cash_flow_score * 30 + expense_score * 25 + recurring_score * 20

\* the try block of _calculate_financial_health
HealthBody(d, now) ==
    LET balance_score == _calculate_balance_score(DataGet(d, "account_summary", EmptyDict))
        cash_flow_score == _calculate_cash_flow_score(DataGet(d, "cash_flow_forecast", EmptyDict))
        expense_score == _calculate_expense_score(DataGet(d, "financial_summary", EmptyDict))
        recurring_score == _calculate_recurring_score(DataGet(d, "recurring_summary", EmptyDict))
        overall_score == WeightedSum(balance_score, cash_flow_score, expense_score, recurring_score)
        alerts == _generate_alerts(d)
    IN  IF ~alerts.ok THEN alerts
        ELSE Ok([overall_score |-> Round1(overall_score),
                 balance_score |-> Round1(balance_score * 100),
                 cash_flow_score |-> Round1(cash_flow_score * 100),
                 expense_score |-> Round1(expense_score * 100),
                 recurring_score |-> Round1(recurring_score * 100),
                 risk_level |-> _determine_risk_level(overall_score),
                 recommendations |-> _generate_recommendations(
                     balance_score, cash_flow_score, expense_score, recurring_score),
                 alerts |-> alerts.v,
                 trends |-> _calculate_trends,
                 generated_at |-> now])

\* the except block of _calculate_financial_health
HealthFallback(now) ==
    [overall_score |-> 0, balance_score |-> 0, cash_flow_score |-> 0,
     expense_score |-> 0, recurring_score |-> 0,
     risk_level |-> "unknown",
     recommendations |-> <<"Unable to calculate financial health">>,
     alerts |-> <<"Financial health calculation failed">>,
     trends |-> <<>>,
     generated_at |-> now]

\* variant: no except block
HealthUnguarded(d, now) == HealthBody(d, now)

_calculate_financial_health(d, now) ==
    LET r == HealthBody(d, now) IN IF r.ok THEN r ELSE Ok(HealthFallback(now))

\* variant: every item weighs 30
RiskScoreFlat(high_risk_items, medium_risk_items) ==
    LET weighted == Len(high_risk_items) * 30 + Len(medium_risk_items) * 30
    IN  IF weighted < 100 THEN weighted ELSE 100

\* min(100, len(high_risk_items) * 30 + len(medium_risk_items) * 15)
RiskScore(high_risk_items, medium_risk_items) ==
    LET weighted == Len(high_risk_items) * 30 + Len(medium_risk_items) * 15
    IN  IF weighted < 100 THEN weighted ELSE 100

\* the try block of _calculate_risk_assessment
RiskBody(d, now) ==
    LET net == AsNum(NetOf(DataGet(d, "cash_flow_forecast", EmptyDict)))
        savings == AsNum(SavingsRateOf(DataGet(d, "financial_summary", EmptyDict)))
        obligation_ratio == AsNum(DictGet(DataGet(d, "recurring_summary", EmptyDict),
                                          "obligation_ratio", PyNum(0)))
        cash_flow_risk == net.v < 0
        expense_risk == savings.v < 10
        recurring_risk == obligation_ratio.v > 60
        risk_factors ==
               (IF cash_flow_risk
                   THEN <<[category |-> "cash_flow",
                           description |-> "Negative cash flow projected",
                           severity |-> "high",
                           impact |-> "Potential liquidity issues"]>> ELSE <<>>)
            \o (IF expense_risk
                   THEN <<[category |-> "expenses",
                           description |-> "Low savings rate",
                           severity |-> "medium",
                           impact |-> "Reduced financial resilience"]>> ELSE <<>>)
            \o (IF recurring_risk
                   THEN <<[category |-> "recurring_obligations",
                           description |-> "High recurring obligations",
                           severity |-> "high",
                           impact |-> "Limited financial flexibility"]>> ELSE <<>>)
        high_risk_items ==
               (IF cash_flow_risk THEN <<"Negative cash flow in next 30 days">> ELSE <<>>)
            \o (IF recurring_risk
                   THEN <<"Recurring obligations exceed 60% of income">> ELSE <<>>)
        medium_risk_items ==
            IF expense_risk THEN <<"Savings rate below 10%">> ELSE <<>>
        risk_score == RiskScore(high_risk_items, medium_risk_items)
        mitigation_strategies ==
               (IF high_risk_items # <<>>
                   THEN <<"Immediate action required - review budget and expenses">>
                   ELSE <<>>)
            \o (IF medium_risk_items # <<>>
                   THEN <<"Monitor closely and implement improvement strategies">>
                   ELSE <<>>)
    IN  IF ~net.ok THEN net
        ELSE IF ~savings.ok THEN savings
        ELSE IF ~obligation_ratio.ok THEN obligation_ratio
        ELSE Ok([overall_risk_score |-> risk_score,
                 risk_factors |-> risk_factors,
                 high_risk_items |-> high_risk_items,
                 medium_risk_items |-> medium_risk_items,
                 risk_trends |-> ("trend" :> "stable"),
                 mitigation_strategies |-> mitigation_strategies,
                 generated_at |-> now])

\* the except block of _calculate_risk_assessment
RiskFallback(now) ==
    [overall_risk_score |-> 0,
     risk_factors |-> <<>>,
     high_risk_items |-> <<>>,
     medium_risk_items |-> <<>>,
     risk_trends |-> <<>>,
     mitigation_strategies |-> <<"Risk assessment calculation failed">>,
     generated_at |-> now]

\* variant: no except block
RiskUnguarded(d, now) == RiskBody(d, now)

_calculate_risk_assessment(d, now) ==
    LET r == RiskBody(d, now) IN IF r.ok THEN r ELSE Ok(RiskFallback(now))


---------------------------------------------------------------------------
(* api_client.py: the HTTP client *)

\* a response of the remote service, or the request failing below HTTP
Http(status, body) == [net |-> TRUE, status |-> status, body |-> body]
NetworkError == [net |-> FALSE, status |-> 0, body |-> PyNone]
\* a body that is not JSON
Unparsable == [t |-> "unparsable"]

\* variant: a status of exactly 500 is not taken for a server error
HandleResponseAbove500(response) ==
    IF response.status = 200
        THEN IF response.body = Unparsable THEN Ok(EmptyDict) ELSE Ok(response.body)
    ELSE IF response.status = 401 THEN Raise("ValueError: Invalid API key")
    ELSE IF response.status = 403 THEN Raise("ValueError: Insufficient permissions")
    ELSE IF response.status = 404 THEN Raise("ValueError: Endpoint not found")
    ELSE IF response.status > 500 THEN Raise("RuntimeError: Server error")
    ELSE Raise("RuntimeError: HTTP error")

_handle_response(response) ==
    IF response.status = 200
        THEN IF response.body = Unparsable THEN Ok(EmptyDict) ELSE Ok(response.body)
    ELSE IF response.status = 401 THEN Raise("ValueError: Invalid API key")
    ELSE IF response.status = 403 THEN Raise("ValueError: Insufficient permissions")
    ELSE IF response.status = 404 THEN Raise("ValueError: Endpoint not found")
    ELSE IF response.status >= 500 THEN Raise("RuntimeError: Server error")
    ELSE Raise("RuntimeError: HTTP error")

\* one GET: the exception of the session (aiohttp.ClientError) or of _handle_response
\* is re-raised
_make_request(response) ==
    IF ~response.net THEN Raise("ClientError") ELSE _handle_response(response)

\* get_cash_flow_forecast, get_financial_summary, get_critical_expenses,
\* get_recurring_summary, get_account_summary
get_summary(response) == _make_request(response)

\* get_enhanced_categories, get_enhanced_payees, get_enhanced_accounts,
\* get_recurring_transactions, get_enhanced_transactions
get_list(response) ==
    LET r == _make_request(response)
    IN  IF ~r.ok THEN r
        ELSE IF IsDict(r.v) THEN DictGet(r.v, "results", EmptyList)
        ELSE r

get_queries(response) ==
    LET r == _make_request(response)
    IN  IF ~r.ok THEN Ok(EmptyList)
        ELSE IF IsList(r.v) THEN r
        ELSE Ok(EmptyList)

get_dashboard(response) ==
    LET r == _make_request(response)
    IN  IF ~r.ok THEN Ok(EmptyDict)
        ELSE IF IsDict(r.v) THEN r
        ELSE Ok(EmptyDict)

\* sends no request
get_calendars == Ok(EmptyDict)

---------------------------------------------------------------------------
(* coordinator.py: _async_update_data, one action per await *)

Summaries ==
    <<"cash_flow_forecast", "financial_summary", "critical_expenses",
      "recurring_summary", "account_summary">>
Lists ==
    <<"enhanced_categories", "enhanced_payees", "enhanced_accounts",
      "recurring_transactions", "enhanced_transactions">>
\* the ten fetches in the order of the code
Secondary == Summaries \o Lists

Range(seq) == {seq[i] : i \in 1..Len(seq)}

Path(ep) ==
    CASE ep = "cash_flow_forecast" -> "/api/enhanced/transactions/cash_flow_forecast/"
      [] ep = "financial_summary" -> "/api/enhanced/transactions/financial_summary/"
      [] ep = "critical_expenses" -> "/api/enhanced/transactions/critical_expenses/"
      [] ep = "recurring_summary" -> "/api/recurring-transactions/summary/"
      [] ep = "account_summary" -> "/api/enhanced/accounts/summary/"
      [] ep = "enhanced_categories" -> "/api/enhanced/categories/"
      [] ep = "enhanced_payees" -> "/api/enhanced/payees/"
      [] ep = "enhanced_accounts" -> "/api/enhanced/accounts/"
      [] ep = "recurring_transactions" -> "/api/recurring-transactions/"
      [] ep = "enhanced_transactions" -> "/api/enhanced/transactions/"
      [] ep = "queries" -> "/api/ha/queries/"
      [] ep = "dashboard" -> "/api/ha/dashboard/"

\* the api_client method behind data[ep]
ApiGet(ep, response) ==
    IF ep \in Range(Summaries) THEN get_summary(response) ELSE get_list(response)

\* variant: every except block stores {}
DefaultAlwaysDict(ep) == EmptyDict

\* what the except block of a secondary fetch stores
Default(ep) == IF ep \in Range(Summaries) THEN EmptyDict ELSE EmptyList

\* where _async_update_data goes after the step at p
AfterStep(p) ==
    LET order == Secondary \o <<"financial_health", "risk_assessment", "queries",
                                "dashboard", "calendars", "return">>
        i == CHOOSE j \in 1..Len(order) : order[j] = p
    IN  order[i + 1]

\* the dict objects: the one coordinator.data holds and the one under construction
Refs == {"dict1", "dict2"}
NoRef == "none"

\* d[k] = v
Put(d, k, v) == [x \in DOMAIN d \cup {k} |-> IF x = k THEN v ELSE d[x]]

\* what coordinator.data gives a reader
NoSnapshot == [some |-> FALSE]
PubView == IF published = NoRef THEN NoSnapshot ELSE [some |-> TRUE, d |-> heap[published]]
NoRead == [read |-> FALSE]

\* variant: data = self.data or {}
ReuseDict(pub) == IF pub = NoRef THEN "dict1" ELSE pub

\* data = {}: a new dict object
NewDict(pub) == CHOOSE r \in Refs : r # pub

Init ==
    /\ pc = "idle"
    /\ heap = [r \in Refs |-> <<>>]
    /\ data = NoRef
    /\ published = NoRef
    /\ clock = 0
    /\ sent = <<>>
    /\ outcome = "none"
    /\ atStart = NoSnapshot
    /\ lastRead = NoRead
    /\ mpc = "off"
    /\ mIn = <<>>
    /\ mHealth = NotRun
    /\ mRisk = NotRun
    /\ mBalance = NotRun
    /\ GatewayQuiet /\ AdaptersQuiet /\ SetupQuiet

\* the host calls _async_update_data (first refresh, then on its timer)
Start ==
    /\ pc = "idle"
    /\ data' = NewDict(published)
    /\ heap' = [heap EXCEPT ![data'] = <<>>]
    /\ pc' = Secondary[1]
    /\ sent' = <<>>
    /\ atStart' = PubView
    /\ lastRead' = NoRead
    /\ UNCHANGED <<published, clock, outcome, metricVars, otherVars>>

\* async_config_entry_first_refresh: the refresh of a coordinator that has no data yet
StartFirst == published = NoRef /\ outcome = "none" /\ Start

\* the outer except block: raise UpdateFailed; coordinator.data keeps what it held
UpdateFailed ==
    /\ pc' = "idle"
    /\ outcome' = "UpdateFailed"
    /\ heap' = [heap EXCEPT ![data] = <<>>]
    /\ data' = NoRef
    /\ UNCHANGED <<published, clock, sent, atStart, lastRead, metricVars, otherVars>>

\* the step at pc stores v under pc and goes on
Store(v) ==
    /\ heap' = [heap EXCEPT ![data] = Put(@, pc, v)]
    /\ pc' = AfterStep(pc)
    /\ UNCHANGED <<data, published, clock, outcome, atStart, lastRead, metricVars, otherVars>>

Request(ep, response) == [path |-> Path(ep), response |-> response]

\* try: data[ep] = await self.api_client.get_...() except Exception: data[ep] = default
FetchSecondary(responses) ==
    \E i \in 1..Len(Secondary) :
        /\ pc = Secondary[i]
        /\ \E response \in responses[pc] :
            LET r == ApiGet(pc, response)
            IN  /\ Store(IF r.ok THEN r.v ELSE Default(pc))
                /\ sent' = Append(sent, Request(pc, response))

\* data["financial_health"] = self._calculate_financial_health(data)
ComputeHealth ==
    /\ pc = "financial_health"
    /\ LET r == _calculate_financial_health(heap[data], clock)
       IN  IF r.ok THEN Store(r.v) /\ UNCHANGED sent ELSE UpdateFailed

\* data["risk_assessment"] = self._calculate_risk_assessment(data)
ComputeRisk ==
    /\ pc = "risk_assessment"
    /\ LET r == _calculate_risk_assessment(heap[data], clock)
       IN  IF r.ok THEN Store(r.v) /\ UNCHANGED sent ELSE UpdateFailed

\* try: data["queries"] = await self.api_client.get_queries() except: data["queries"] = []
FetchQueries(responses) ==
    /\ pc = "queries"
    /\ \E response \in responses[pc] :
        LET r == get_queries(response)
        IN  /\ Store(IF r.ok THEN r.v ELSE EmptyList)
            /\ sent' = Append(sent, Request(pc, response))

\* try: data["dashboard"] = await self.api_client.get_dashboard() except: ... = {}
FetchDashboard(responses) ==
    /\ pc = "dashboard"
    /\ \E response \in responses[pc] :
        LET r == get_dashboard(response)
        IN  /\ Store(IF r.ok THEN r.v ELSE EmptyDict)
            /\ sent' = Append(sent, Request(pc, response))

\* try: data["calendars"] = await self.api_client.get_calendars() except: ... = {}
FetchCalendars ==
    /\ pc = "calendars"
    /\ LET r == get_calendars
       IN  Store(IF r.ok THEN r.v ELSE EmptyDict)
    /\ UNCHANGED sent

\* data["last_updated"] = datetime.now().isoformat(); return data
Return ==
    /\ pc = "return"
    /\ heap' = [heap EXCEPT ![data] = Put(@, "last_updated", clock)]
    /\ pc' = "returned"
    /\ outcome' = "ok"
    /\ UNCHANGED <<data, published, clock, sent, atStart, lastRead, metricVars, otherVars>>

\* the host's DataUpdateCoordinator stores the returned dict in coordinator.data; the
\* dict it held before is no longer referenced
Publish ==
    /\ pc = "returned"
    /\ published' = data
    /\ heap' = [r \in Refs |-> IF r = data THEN heap[r] ELSE <<>>]
    /\ data' = NoRef
    /\ pc' = "idle"
    /\ UNCHANGED <<clock, sent, outcome, atStart, lastRead, metricVars, otherVars>>

\* an entity reads coordinator.data
AdapterRead ==
    /\ pc # "off"
    /\ lastRead' = [read |-> TRUE, view |-> PubView]
    /\ UNCHANGED <<pc, heap, data, published, clock, sent, outcome, atStart, metricVars, otherVars>>

MaxClock == 1

\* time passes
Tick ==
    /\ pc # "off"
    /\ clock < MaxClock
    /\ clock' = clock + 1
    /\ UNCHANGED <<pc, heap, data, published, sent, outcome, atStart, lastRead, metricVars, otherVars>>

---------------------------------------------------------------------------
(* The remote service *)

Query(id, output_type) ==
    PyDict(("id" :> PyNum(id)) @@ ("output_type" :> PyStr(output_type)))

\* GET /api/ha/queries/: one sensor query and one calendar query
Catalog == PyList(<<Query(1, "SENSOR"), Query(2, "CALENDAR")>>)

Results(id) == PyList(<<PyDict("id" :> PyNum(id))>>)

\* the body of a 200 answer of each endpoint
GoodBody(ep) ==
    CASE ep = "cash_flow_forecast" -> PyDict("next_30_days" :> PyDict("net" :> PyNum(-500)))
      [] ep = "financial_summary" ->
            PyDict("current_month" :> PyDict("savings_rate" :> PyNum(12)))
      [] ep = "critical_expenses" -> PyDict("total_critical_amount" :> PyNum(6000))
      [] ep = "recurring_summary" -> PyDict("obligation_ratio" :> PyNum(35))
      [] ep = "account_summary" -> PyDict("total_balance" :> PyNum(12000))
      [] ep = "enhanced_categories" -> PyDict("results" :> Results(11))
      [] ep = "enhanced_payees" -> PyDict("results" :> Results(12))
      [] ep = "enhanced_accounts" -> Results(13)
      [] ep = "recurring_transactions" -> PyDict("count" :> PyNum(0))
      [] ep = "enhanced_transactions" -> PyDict("results" :> Results(15))
      [] ep = "queries" -> Catalog
      [] ep = "dashboard" -> PyDict("net_worth" :> PyNum(42000))

Endpoints == Range(Secondary) \cup {"queries", "dashboard"}

\* the first refresh: every secondary endpoint answers or fails; the catalog and the
\* dashboard answer or fail in every way _make_request tells apart
FirstResponses ==
    [ep \in Endpoints |->
        IF ep = "queries"
            THEN {Http(200, Catalog), Http(200, EmptyDict), Http(401, PyNone),
                  Http(404, PyNone), Http(500, PyNone), NetworkError}
        ELSE IF ep = "dashboard"
            THEN {Http(200, GoodBody(ep)), Http(403, PyNone)}
        ELSE IF ep = "cash_flow_forecast"
            THEN {Http(200, GoodBody(ep)), Http(200, Unparsable), Http(500, PyNone),
                  NetworkError}
        ELSE {Http(200, GoodBody(ep)), Http(500, PyNone)}]

\* later refreshes: the account summary changes or fails, the catalog answers or fails
SteadyResponses ==
    [ep \in Endpoints |->
        IF ep = "account_summary"
            THEN {Http(200, GoodBody(ep)), Http(200, PyDict("total_balance" :> PyNum(500))),
                  Http(500, PyNone)}
        ELSE IF ep = "queries"
            THEN {Http(200, Catalog), Http(500, PyNone)}
        ELSE {Http(200, GoodBody(ep))}]

NextFirst ==
    \/ StartFirst
    \/ FetchSecondary(FirstResponses)
    \/ ComputeHealth
    \/ ComputeRisk
    \/ FetchQueries(FirstResponses)
    \/ FetchDashboard(FirstResponses)
    \/ FetchCalendars
    \/ Return
    \/ Publish

\* the first refresh of a coordinator, against a service that may fail anywhere
SpecFirst == Init /\ [][NextFirst]_vars

Next ==
    \/ Start
    \/ FetchSecondary(SteadyResponses)
    \/ ComputeHealth
    \/ ComputeRisk
    \/ FetchQueries(SteadyResponses)
    \/ FetchDashboard(SteadyResponses)
    \/ FetchCalendars
    \/ Return
    \/ Publish
    \/ AdapterRead
    \/ Tick

\* the coordinator refreshing again and again while entities read its data
Spec == Init /\ [][Next]_vars

\* every outcome _make_request tells apart, spread over the endpoints: each secondary
\* endpoint answers well or fails in its own way, the catalog fails in every way
UpstreamResponses ==
    [ep \in Endpoints |->
        IF ep = "queries"
            THEN {Http(200, Catalog), Http(200, Unparsable), Http(401, PyNone),
                  Http(403, PyNone), Http(404, PyNone), Http(500, PyNone),
                  Http(503, PyNone), NetworkError}
        ELSE IF ep = "dashboard"
            THEN {Http(200, GoodBody(ep)), Http(200, Unparsable), Http(500, PyNone)}
        ELSE {Http(200, GoodBody(ep)),
              CASE ep = "cash_flow_forecast" -> Http(401, PyNone)
                [] ep = "financial_summary" -> Http(200, EmptyList)
                [] ep = "critical_expenses" -> Http(403, PyNone)
                [] ep = "recurring_summary" -> Http(404, PyNone)
                [] ep = "account_summary" -> Http(500, PyNone)
                [] ep = "enhanced_categories" -> NetworkError
                [] ep = "enhanced_payees" -> Http(200, Unparsable)
                [] ep = "enhanced_accounts" -> Http(503, PyNone)
                [] ep = "recurring_transactions" -> Http(401, PyNone)
                [] ep = "enhanced_transactions" -> NetworkError}]

NextUpstream ==
    \/ StartFirst
    \/ FetchSecondary(UpstreamResponses)
    \/ ComputeHealth
    \/ ComputeRisk
    \/ FetchQueries(UpstreamResponses)
    \/ FetchDashboard(UpstreamResponses)
    \/ FetchCalendars
    \/ Return
    \/ Publish

\* one refresh against a service whose every endpoint may fail, the catalog included
SpecUpstream == Init /\ [][NextUpstream]_vars

---------------------------------------------------------------------------
(* The metric functions applied to a snapshot in progress of any shape *)

Absent == [t |-> "absent"]

\* a dict with the one key k, or without it when v is Absent
D1(k, v) == IF v = Absent THEN EmptyDict ELSE PyDict(k :> v)

\* values that are not numbers
BadLeaves == {PyNone, PyStr("1,200"), EmptyList, EmptyDict}
\* values that are not dicts; Absent is the key missing from the snapshot
NonDicts == {PyNone, PyNum(7), PyStr("n/a"), EmptyList, Absent}

Nums(S) == {PyNum(n) : n \in S}

AccountShapes(leaves) == {D1("total_balance", v) : v \in leaves}
CashFlowShapes(leaves) == {D1("next_30_days", D1("net", v)) : v \in leaves}
FinancialShapes(leaves) == {D1("current_month", D1("savings_rate", v)) : v \in leaves}
RecurringShapes(leaves) == {D1("obligation_ratio", v) : v \in leaves}
CriticalShapes(leaves) == {D1("total_critical_amount", v) : v \in leaves}

\* the snapshot in progress with the five summaries a, c, f, r, x (Absent: no key)
Snapshot5(a, c, f, r, x) ==
    LET all == ("account_summary" :> a) @@ ("cash_flow_forecast" :> c)
                @@ ("financial_summary" :> f) @@ ("recurring_summary" :> r)
                @@ ("critical_expenses" :> x)
    IN  [k \in {j \in DOMAIN all : all[j] # Absent} |-> all[k]]

Grid(A, C, F, R, X) ==
    {Snapshot5(a, c, f, r, x) : a \in A, c \in C, f \in F, r \in R, x \in X}

\* every level of the four step functions and both sides of every alert and risk threshold
LevelGrid ==
    Grid(AccountShapes(Nums({0, 999, 1000, 5000, 10000})),
         CashFlowShapes(Nums({-5000, -2500, -2001, -2000, -1000, -1, 0})),
         FinancialShapes(Nums({-1, 0, 5, 9, 10, 15, 20})),
         RecurringShapes(Nums({30, 40, 50, 60, 61, 70, 71})),
         CriticalShapes(Nums({5000, 5001})))

\* the balance around every cut point of its step function
BalanceGrid ==
    Grid(AccountShapes(Nums({-10000, -1, 0, 1, 999, 1000, 1001, 4999, 5000, 5001,
                             9999, 10000, 10001, 1000000}) \cup {Absent}),
         CashFlowShapes(Nums({-3000, 0})),
         FinancialShapes(Nums({0, 20})),
         RecurringShapes(Nums({30, 71})),
         CriticalShapes(Nums({5001})))

\* every field as a dict, a list, null, a number, a string, or missing
FieldGrid ==
    Grid(AccountShapes(Nums({5000})) \cup NonDicts,
         CashFlowShapes(Nums({-3000})) \cup NonDicts,
         FinancialShapes(Nums({5})) \cup NonDicts,
         RecurringShapes(Nums({65})) \cup NonDicts,
         CriticalShapes(Nums({6000})) \cup NonDicts)

\* every field a dict whose value is a number, missing, or no number (or, where the
\* value is nested, whose inner dict is no dict)
LeafGrid ==
    Grid(AccountShapes(Nums({5000}) \cup {Absent} \cup BadLeaves),
         CashFlowShapes(Nums({-3000}) \cup {Absent, PyNone, EmptyDict})
            \cup {D1("next_30_days", PyNone)},
         FinancialShapes(Nums({5}) \cup {Absent, PyStr("12%"), EmptyList})
            \cup {D1("current_month", EmptyList)},
         RecurringShapes(Nums({65}) \cup {Absent, PyNone, PyStr("65")}),
         CriticalShapes(Nums({6000}) \cup {Absent, EmptyList, PyNone}))

MetricInputs == LevelGrid \cup BalanceGrid \cup FieldGrid \cup LeafGrid


\* no coordinator: the metric functions alone
RefreshQuiet ==
    /\ pc = "off"
    /\ heap = [r \in Refs |-> <<>>]
    /\ data = NoRef
    /\ published = NoRef
    /\ clock = 0
    /\ sent = <<>>
    /\ outcome = "none"
    /\ atStart = NoSnapshot
    /\ lastRead = NoRead

\* no metric function applied on its own
MetricQuiet ==
    /\ mpc = "off"
    /\ mIn = <<>>
    /\ mHealth = NotRun
    /\ mRisk = NotRun
    /\ mBalance = NotRun

InitMetric ==
    /\ RefreshQuiet
    /\ GatewayQuiet /\ AdaptersQuiet /\ SetupQuiet
    /\ mpc = "input"
    /\ mIn \in MetricInputs
    /\ mHealth = NotRun
    /\ mRisk = NotRun
    /\ mBalance = NotRun

\* data["financial_health"] = self._calculate_financial_health(data)
MetricHealth ==
    /\ mpc = "input"
    /\ mHealth' = _calculate_financial_health(mIn, clock)
    /\ mpc' = "health"
    /\ UNCHANGED <<mIn, mRisk, mBalance, refreshVars, otherVars>>

\* data["risk_assessment"] = self._calculate_risk_assessment(data)
MetricRisk ==
    /\ mpc = "health"
    /\ mRisk' = _calculate_risk_assessment(mIn, clock)
    /\ mpc' = "done"
    /\ UNCHANGED <<mIn, mHealth, mBalance, refreshVars, otherVars>>

NextMetric == MetricHealth \/ MetricRisk

SpecMetric == InitMetric /\ [][NextMetric]_vars

\* the balances swept across the step function: -2500, -2250, ..., in steps of 250
BalanceSteps == 60
BalanceSweep ==
    {250 * i - 2500 : i \in 0..BalanceSteps}
        \cup {-1, 0, 1, 999, 1000, 1001, 4999, 5000, 5001, 9999, 10000, 10001}

BalanceInputs ==
    {Snapshot5(a, Absent, Absent, Absent, Absent) :
        a \in AccountShapes(Nums(BalanceSweep) \cup {Absent} \cup BadLeaves) \cup NonDicts}

InitBalance ==
    /\ RefreshQuiet
    /\ GatewayQuiet /\ AdaptersQuiet /\ SetupQuiet
    /\ mpc = "input"
    /\ mIn \in BalanceInputs
    /\ mHealth = NotRun
    /\ mRisk = NotRun
    /\ mBalance = NotRun

\* balance_score = self._calculate_balance_score(account_summary)
MetricBalance ==
    /\ mpc = "input"
    /\ mBalance' = Ok(_calculate_balance_score(DataGet(mIn, "account_summary", EmptyDict)))
    /\ mpc' = "done"
    /\ UNCHANGED <<mIn, mHealth, mRisk, refreshVars, otherVars>>

NextBalance == MetricBalance

SpecBalance == InitBalance /\ [][NextBalance]_vars

---------------------------------------------------------------------------
(* Properties of the metric functions *)

HealthDone == mpc \in {"health", "done"} /\ mHealth # NotRun
RiskDone == mpc = "done" /\ mRisk # NotRun

IsHealthFallback(h) ==
    /\ h.overall_score = 0
    /\ h.balance_score = 0
    /\ h.cash_flow_score = 0
    /\ h.expense_score = 0
    /\ h.recurring_score = 0
    /\ h.risk_level = "unknown"

IsRiskFallback(r) ==
    /\ r.overall_risk_score = 0
    /\ r.risk_factors = <<>>
    /\ r.high_risk_items = <<>>
    /\ r.medium_risk_items = <<>>
    /\ r.mitigation_strategies = <<"Risk assessment calculation failed">>

\* C4: whatever the shape of the snapshot's fields, _calculate_financial_health and
\* _calculate_risk_assessment return a record and do not raise; the record is the
\* fallback (five scores 0 and risk_level "unknown"; risk score 0 and the three lists
\* empty) exactly when an exception reaches the function's except block.  An exception
\* inside one of the four score functions is caught there, scores 0 for that
\* component, and does not reach it.
C4_MetricFailSafe ==
    /\ HealthDone =>
        /\ mHealth.ok
        /\ IsHealthFallback(mHealth.v) <=> ~HealthBody(mIn, clock).ok
    /\ RiskDone =>
        /\ mRisk.ok
        /\ ~RiskBody(mIn, clock).ok => IsRiskFallback(mRisk.v)
        /\ RiskBody(mIn, clock).ok =>
             mRisk.v.mitigation_strategies # <<"Risk assessment calculation failed">>

\* C4 witness: a snapshot whose critical_expenses is a list and whose cash_flow_forecast
\* is null has both fallback records
C4_Witness ==
    /\ RiskDone
    /\ "critical_expenses" \in DOMAIN mIn /\ mIn["critical_expenses"] = EmptyList
    /\ "cash_flow_forecast" \in DOMAIN mIn /\ mIn["cash_flow_forecast"] = PyNone
    /\ IsHealthFallback(mHealth.v)
    /\ IsRiskFallback(mRisk.v)

\* the weighted sum of the published component scores (tenths), times 100
PublishedWeighted(h) ==
    25 * h.balance_score + 30 * h.cash_flow_score
        + 25 * h.expense_score + 20 * h.recurring_score

\* C5: overall_score lies in [0, 100] and differs from 0.25 balance + 0.30 cash flow +
\* 0.25 expense + 0.20 recurring of the scores of the same record by at most 0.05,
\* the rounding to one decimal
C5_OverallScore ==
    HealthDone =>
        /\ mHealth.v.overall_score \in 0..1000
        /\ 100 * mHealth.v.overall_score - PublishedWeighted(mHealth.v) \in -50..50

\* C5 witness: a record whose weighted sum is not a multiple of 0.1 and was rounded
C5_Witness ==
    /\ HealthDone
    /\ mHealth.v.risk_level # "unknown"
    /\ 100 * mHealth.v.overall_score # PublishedWeighted(mHealth.v)
    /\ mHealth.v.balance_score = 250

\* the documented thresholds, on a score in tenths
LevelOfPublished(score) ==
    IF score >= 800 THEN "low"
    ELSE IF score >= 600 THEN "moderate"
    ELSE IF score >= 400 THEN "high"
    ELSE IF score >= 200 THEN "very_high"
    ELSE "critical"

\* C6: in every record that is not the fallback, risk_level is the threshold function of
\* the published (rounded) overall_score: >= 80 low, >= 60 moderate, >= 40 high,
\* >= 20 very_high, else critical
C6_RiskLevel ==
    HealthDone /\ mHealth.v.risk_level # "unknown" =>
        mHealth.v.risk_level = LevelOfPublished(mHealth.v.overall_score)

\* C6 witness: an overall_score of exactly 80.0, the cut point, is low
C6_Witness ==
    /\ HealthDone
    /\ mHealth.v.overall_score = 800
    /\ mHealth.v.risk_level = "low"

\* the documented step function of the balance
StepOfBalance(n) ==
    IF n <= 0 THEN 0
    ELSE IF n < 1000 THEN 25
    ELSE IF n < 5000 THEN 50
    ELSE IF n < 10000 THEN 75
    ELSE 100

\* C7: _calculate_balance_score of an account summary whose total_balance is the number n
\* is 0 for n <= 0, 25 for n < 1000, 50 for n < 5000, 75 for n < 10000 and 100
\* otherwise; a missing total_balance gives 0
C7_BalanceScore ==
    LET acc == DataGet(mIn, "account_summary", EmptyDict)
    IN  mBalance # NotRun /\ IsDict(acc) =>
            /\ mBalance.ok
            /\ "total_balance" \notin DOMAIN acc.d => mBalance.v = 0
            /\ "total_balance" \in DOMAIN acc.d /\ IsNum(acc.d["total_balance"]) =>
                 mBalance.v = StepOfBalance(acc.d["total_balance"].n)

\* C7 witness: a balance of exactly 10000 scores 100
C7_Witness ==
    /\ mBalance = Ok(100)
    /\ mIn["account_summary"] = D1("total_balance", PyNum(10000))

Has(seq, x) == \E i \in 1..Len(seq) : seq[i] = x
Categories(r) == [i \in 1..Len(r.risk_factors) |-> r.risk_factors[i].category]

\* C8: _calculate_risk_assessment evaluates three independent checks (30-day net < 0:
\* a high item; savings rate < 10: a medium item; obligation ratio > 60: a high item),
\* appends one risk-factor record per triggered check, and sets overall_risk_score to
\* min(100, 30 |high_risk_items| + 15 |medium_risk_items|)
C8_RiskAssessment ==
    RiskDone =>
        LET r == mRisk.v
            net == AsNum(NetOf(DataGet(mIn, "cash_flow_forecast", EmptyDict)))
            savings == AsNum(SavingsRateOf(DataGet(mIn, "financial_summary", EmptyDict)))
            ratio == AsNum(DictGet(DataGet(mIn, "recurring_summary", EmptyDict),
                                   "obligation_ratio", PyNum(0)))
            weighted == 30 * Len(r.high_risk_items) + 15 * Len(r.medium_risk_items)
        IN  /\ Len(r.risk_factors) = Len(r.high_risk_items) + Len(r.medium_risk_items)
            /\ r.overall_risk_score = IF weighted < 100 THEN weighted ELSE 100
            /\ net.ok /\ savings.ok /\ ratio.ok =>
                /\ Has(r.high_risk_items, "Negative cash flow in next 30 days") <=> net.v < 0
                /\ Has(Categories(r), "cash_flow") <=> net.v < 0
                /\ Has(r.medium_risk_items, "Savings rate below 10%") <=> savings.v < 10
                /\ Has(Categories(r), "expenses") <=> savings.v < 10
                /\ Has(r.high_risk_items, "Recurring obligations exceed 60% of income")
                     <=> ratio.v > 60
                /\ Has(Categories(r), "recurring_obligations") <=> ratio.v > 60
                /\ \A i \in 1..Len(r.risk_factors) :
                     r.risk_factors[i].severity =
                        IF r.risk_factors[i].category = "expenses" THEN "medium" ELSE "high"

\* C8 witness: all three checks trigger: two high items and one medium item, score 75
C8_Witness ==
    /\ RiskDone
    /\ Len(mRisk.v.high_risk_items) = 2
    /\ Len(mRisk.v.medium_risk_items) = 1
    /\ Len(mRisk.v.risk_factors) = 3
    /\ mRisk.v.overall_risk_score = 75

---------------------------------------------------------------------------
(* Properties of the refresh *)

SnapshotKeys ==
    Range(Secondary) \cup {"financial_health", "risk_assessment", "queries",
                           "dashboard", "calendars", "last_updated"}

\* the refresh has ended, and the snapshot it returned
Returned == pc \in {"returned", "idle"} /\ outcome = "ok"
Ended == pc = "idle" /\ outcome # "none"
LastSnapshot == IF pc = "returned" THEN heap[data] ELSE heap[published]

\* the fetch that got this response raised
Fails(response) == ~response.net \/ response.status # 200

\* C1: whichever of the ten secondary fetches raise, _async_update_data returns a
\* snapshot; each field whose fetch raised holds {} (the five summaries) or [] (the five
\* lists), and every other field holds what its api_client method returned
C1_FailureIsolation ==
    /\ outcome # "UpdateFailed"
    /\ Returned =>
        \A i \in 1..Len(Secondary) :
            LET ep == Secondary[i]
                response == sent[i].response
            IN  /\ sent[i].path = Path(ep)
                /\ ep \in DOMAIN LastSnapshot
                /\ Fails(response) =>
                     LastSnapshot[ep] = IF i <= Len(Summaries) THEN EmptyDict ELSE EmptyList
                /\ ~Fails(response) => LastSnapshot[ep] = ApiGet(ep, response).v

\* C1 witness: a returned snapshot after the cash-flow request failed below HTTP and the
\* account summary, the payees and the transactions answered 500, the rest 200
C1_Witness ==
    /\ Returned
    /\ {i \in 1..Len(Secondary) : Fails(sent[i].response)} = {1, 5, 7, 10}
    /\ sent[1].response = NetworkError
    /\ LastSnapshot["account_summary"] = EmptyDict
    /\ LastSnapshot["enhanced_payees"] = EmptyList
    /\ LastSnapshot["financial_summary"] = GoodBody("financial_summary")
    /\ LastSnapshot["enhanced_accounts"] = Results(13)

CatalogRequests == SelectSeq(sent, LAMBDA q : q.path = Path("queries"))

\* C2: when every request for the catalog is answered with a 5xx status, the refresh
\* raises UpdateFailed after exactly 3 attempts
C2_CatalogRetry ==
    ( /\ Ended
      /\ CatalogRequests # <<>>
      /\ \A i \in 1..Len(CatalogRequests) : CatalogRequests[i].response.status >= 500 )
    => /\ outcome = "UpdateFailed"
       /\ Len(CatalogRequests) = 3

\* C3: while a refresh is in flight coordinator.data and every read of it give the
\* snapshot published before the refresh started, unchanged; what is published, and
\* what a reader gets, is a whole snapshot
C3_AtomicPublication ==
    /\ pc # "idle" =>
        /\ PubView = atStart
        /\ lastRead.read => lastRead.view = atStart
    /\ published # NoRef => DOMAIN heap[published] = SnapshotKeys
    /\ lastRead.read /\ lastRead.view.some => DOMAIN lastRead.view.d = SnapshotKeys

\* C3 witness: a refresh suspended at the dashboard fetch has stored an account summary
\* that differs from the published one, and an entity has read the published snapshot
C3_Witness ==
    /\ pc = "dashboard"
    /\ published # NoRef
    /\ lastRead.read
    /\ lastRead.view = [some |-> TRUE, d |-> heap[published]]
    /\ heap[data]["account_summary"] # heap[published]["account_summary"]

\* C9: a refresh that received the same data as the one before it returns the same
\* financial_health and the same risk_assessment, every field equal
C9_Determinism ==
    ( /\ pc = "returned"
      /\ published # NoRef
      /\ \A ep \in Range(Secondary) : heap[data][ep] = heap[published][ep] )
    => /\ heap[data]["financial_health"] = heap[published]["financial_health"]
       /\ heap[data]["risk_assessment"] = heap[published]["risk_assessment"]

\* const.py: API_ENDPOINT_SENSOR and API_ENDPOINT_CALENDAR
EntityPath(output_type, id) ==
    CASE output_type = "SENSOR" /\ id = 1 -> "/api/ha/sensor/1/"
      [] output_type = "SENSOR" /\ id = 2 -> "/api/ha/sensor/2/"
      [] output_type = "CALENDAR" /\ id = 1 -> "/api/ha/calendar/1/"
      [] output_type = "CALENDAR" /\ id = 2 -> "/api/ha/calendar/2/"

\* the snapshot's map (sensors or calendars) has an entry for the query id
HasEntry(snapshot, map, id) ==
    /\ map \in DOMAIN snapshot
    /\ IsDict(snapshot[map])
    /\ id \in DOMAIN snapshot[map].d

\* C10: after a refresh every query of the catalog has its entry in sensors (a SENSOR
\* query) or calendars (a CALENDAR query), unless its per-entity fetch failed
C10_QueryPayloads ==
    Returned =>
        \A i \in 1..Len(LastSnapshot["queries"].l) :
            LET q == LastSnapshot["queries"].l[i].d
                kind == q["output_type"].s
                map == IF kind = "SENSOR" THEN "sensors" ELSE "calendars"
            IN  \/ HasEntry(LastSnapshot, map, q["id"].n)
                \/ \E j \in 1..Len(sent) :
                     /\ sent[j].path = EntityPath(kind, q["id"].n)
                     /\ Fails(sent[j].response)


---------------------------------------------------------------------------
(* api_client.py: the client on its own *)

NoClient == [made |-> FALSE]

\* FinanceAssistantAPIClient(host, port, api_key, ssl): the key is stored as given
NewClient(host, port, api_key, ssl) ==
    [made |-> TRUE,
     api_key |-> api_key,
     base_url |-> [protocol |-> IF ssl THEN "https" ELSE "http", host |-> host, port |-> port],
     headers |-> ("X-API-Key" :> api_key) @@ ("Content-Type" :> "application/json")]

\* the methods the client's own callers pass to _make_request
Methods == {"GET", "POST", "PUT", "DELETE"}

\* the api keys a config entry can hold: the user form takes any string
ApiKeys == {"k-123", ""}

\* the statuses of the service, on both sides of every branch of _handle_response
Statuses == {200, 201, 302, 400, 401, 403, 404, 429, 499, 500, 503}

GatewayResponses ==
    {Http(st, PyNone) : st \in Statuses \ {200}}
        \cup {Http(200, Catalog), Http(200, EmptyDict), Http(200, Unparsable), NetworkError}

\* the request session.get/post/put/delete sends
OutboundRequest(client, method, endpoint) ==
    [method |-> method, base_url |-> client.base_url, endpoint |-> endpoint,
     headers |-> client.headers]

MaxCalls == 2

InitGateway ==
    /\ RefreshQuiet
    /\ MetricQuiet
    /\ AdaptersQuiet /\ SetupQuiet
    /\ gw = [pc |-> "on", client |-> NoClient, calls |-> <<>>]

\* __init__
ConstructClient ==
    /\ gw.pc = "on"
    /\ ~gw.client.made
    /\ \E api_key \in ApiKeys, ssl \in BOOLEAN :
        gw' = [gw EXCEPT !.client = NewClient("finance.local", 8080, api_key, ssl)]
    /\ UNCHANGED <<refreshVars, metricVars, adapterVars, setupVars>>

\* one call of _make_request(method, endpoint): the request it sends and how it ends
MakeRequest ==
    /\ gw.pc = "on"
    /\ gw.client.made
    /\ Len(gw.calls) < MaxCalls
    /\ \E method \in Methods, response \in GatewayResponses :
        gw' = [gw EXCEPT !.calls =
                  Append(@, [requests |-> <<OutboundRequest(gw.client, method, "/api/ha/queries/")>>,
                             response |-> response,
                             result |-> _make_request(response)])]
    /\ UNCHANGED <<refreshVars, metricVars, adapterVars, setupVars>>

NextGateway == ConstructClient \/ MakeRequest

SpecGateway == InitGateway /\ [][NextGateway]_vars

---------------------------------------------------------------------------
(* Properties of the client *)

\* the documented outcome of a status
OutcomeOfStatus(status) ==
    IF status = 200 THEN "success"
    ELSE IF status = 401 THEN "ValueError: Invalid API key"
    ELSE IF status = 403 THEN "ValueError: Insufficient permissions"
    ELSE IF status = 404 THEN "ValueError: Endpoint not found"
    ELSE IF status >= 500 THEN "RuntimeError: Server error"
    ELSE "RuntimeError: HTTP error"

\* C13: every call of _make_request sends exactly one request, and for a request that
\* was answered the outcome is the documented function of the status: 200 returns the
\* parsed body, 401, 403, 404 and >= 500 raise their own error, any other status the
\* generic HTTP error
C13_GatewayMapping ==
    \A i \in 1..Len(gw.calls) :
        LET call == gw.calls[i]
            status == call.response.status
        IN  /\ Len(call.requests) = 1
            /\ call.response.net =>
                /\ call.result.ok <=> OutcomeOfStatus(status) = "success"
                /\ ~call.result.ok => call.result.exc = OutcomeOfStatus(status)
                /\ call.result.ok /\ call.response.body # Unparsable =>
                     call.result.v = call.response.body

\* C13 witness: a call answered 503 raised the server error and a call answered 429 the
\* generic HTTP error
C13_Witness ==
    /\ Len(gw.calls) = 2
    /\ gw.calls[1].response.status = 503
    /\ gw.calls[1].result = Raise("RuntimeError: Server error")
    /\ gw.calls[2].response.status = 429
    /\ gw.calls[2].result = Raise("RuntimeError: HTTP error")

\* C14: a client is never made with an empty key, and every request sent carries the
\* configured key, which is not empty, in X-API-Key
C14_ApiKeyHeader ==
    /\ gw.pc = "on" /\ gw.client.made => gw.client.api_key # ""
    /\ gw.pc = "on" =>
        \A i \in 1..Len(gw.calls) : \A j \in 1..Len(gw.calls[i].requests) :
            LET headers == gw.calls[i].requests[j].headers
            IN  /\ "X-API-Key" \in DOMAIN headers
                /\ headers["X-API-Key"] = gw.client.api_key
                /\ headers["X-API-Key"] # ""

---------------------------------------------------------------------------
(* sensor.py: the conversion of a payload value to a number *)

\* a str whose characters matter is PyStr of the sequence of its characters; "U+2212" is
\* the one character MINUS SIGN
Text(cs) == PyStr(cs)

\* a float: m / 10^e, with e as small as it can be
RECURSIVE PyFloat(_, _)
PyFloat(m, e) ==
    IF e > 0 /\ m % 10 = 0 THEN PyFloat(m \div 10, e - 1)
    ELSE [t |-> "float", m |-> m, e |-> e]

DigitChars == {"0", "1", "2", "3", "4", "5", "6", "7", "8", "9"}

DigitValue(c) ==
    CASE c = "0" -> 0 [] c = "1" -> 1 [] c = "2" -> 2 [] c = "3" -> 3 [] c = "4" -> 4
      [] c = "5" -> 5 [] c = "6" -> 6 [] c = "7" -> 7 [] c = "8" -> 8 [] c = "9" -> 9

RECURSIVE DigitsValue(_)
DigitsValue(ds) ==
    IF ds = <<>> THEN 0
    ELSE 10 * DigitsValue(SubSeq(ds, 1, Len(ds) - 1)) + DigitValue(ds[Len(ds)])

\* str.replace(c, '') for every c of drop
Remove(cs, drop) == SelectSeq(cs, LAMBDA c : c \notin drop)

\* str.strip()
Strip(cs) ==
    LET inked == {i \in 1..Len(cs) : cs[i] # " "}
    IN  IF inked = {} THEN <<>>
        ELSE SubSeq(cs, CHOOSE i \in inked : \A j \in inked : i <= j,
                        CHOOSE i \in inked : \A j \in inked : i >= j)

\* digits with at most one point and at least one digit
IsUnsignedNumber(cs) ==
    /\ \A i \in 1..Len(cs) : cs[i] \in DigitChars \cup {"."}
    /\ Cardinality({i \in 1..Len(cs) : cs[i] = "."}) <= 1
    /\ \E i \in 1..Len(cs) : cs[i] \in DigitChars

UnsignedValue(cs) ==
    LET digits == Remove(cs, {"."})
        points == {i \in 1..Len(cs) : cs[i] = "."}
        e == IF points = {} THEN 0 ELSE Len(cs) - (CHOOSE i \in points : TRUE)
    IN  [m |-> DigitsValue(digits), e |-> e]

\* float(cs) of a str made of the characters of Alphabet and digits: surrounding
\* whitespace is ignored, one sign is allowed; ValueError otherwise
FloatOfText(cs) ==
    LET t == Strip(cs)
        signed == t # <<>> /\ t[1] \in {"-", "+"}
        body == IF signed THEN Tail(t) ELSE t
        u == UnsignedValue(body)
    IN  IF ~IsUnsignedNumber(body) THEN Raise("ValueError")
        ELSE Ok(PyFloat(IF signed /\ t[1] = "-" THEN -u.m ELSE u.m, u.e))

\* FinanceAssistantSensor._convert_to_numeric
_convert_to_numeric(value) ==
    IF value = PyNone THEN Ok(PyNone)
    ELSE IF IsNum(value) THEN Ok(PyFloat(value.n, 0))
    ELSE IF value.t = "str" THEN
        LET stripped == Remove(value.s, {"$", ",", "(", ")"})
            cleaned == IF stripped # <<>> /\ stripped[1] \in {"-", "U+2212"}
                           THEN <<"-">> \o Tail(stripped)
                           ELSE stripped
            r == FloatOfText(cleaned)
        IN  IF r.ok THEN r ELSE Ok(PyNone)
    ELSE Ok(PyNone)

\* DashboardSensor._extract_numeric_value
_extract_numeric_value(value) ==
    IF value = PyNone THEN Ok(PyNone)
    ELSE IF IsNum(value) THEN Ok(PyFloat(value.n, 0))
    ELSE IF value.t = "str" THEN
        LET cleaned == Remove(value.s, {"$", ",", "(", ")"})
            r == FloatOfText(cleaned)
        IN  IF r.ok THEN r ELSE Ok(PyNone)
    ELSE Ok(PyNone)

\* the characters of the payload strings
Alphabet == {"$", ",", "(", ")", "-", "U+2212", ".", " ", "5", "0"}

MaxLen == 3

RECURSIVE TextsOfLength(_)
TextsOfLength(n) ==
    IF n = 0 THEN {<<>>}
    ELSE {Append(cs, c) : cs \in TextsOfLength(n - 1), c \in Alphabet}

\* the amounts the service formats, among them those of the documentation
Amounts ==
    {<<"$", "1", ",", "2", "3", "4", ".", "5", "6">>,
     <<"(", "5", "0", "0", ")">>,
     <<"(", "$", "1", ",", "2", "0", "0", ".", "5", "0", ")">>,
     <<"-", "$", "4", "2", ".", "1", "0">>,
     <<" ", "1", "2", ".", "5", " ">>,
     <<"n", "/", "a">>}

\* the values a payload can hold
ConvInputs ==
    {PyNone, PyNum(42), PyNum(0), PyNum(-7), EmptyList, EmptyDict}
        \cup {Text(cs) : cs \in UNION {TextsOfLength(n) : n \in 0..MaxLen} \cup Amounts}

InitConv ==
    /\ RefreshQuiet
    /\ MetricQuiet
    /\ GatewayQuiet /\ SetupQuiet
    /\ cal = Off /\ rec = Off
    /\ conv \in {[pc |-> "value", value |-> v, by |-> "none", result |-> NotRun] :
                    v \in ConvInputs}

\* a query sensor converts the value
ConvertToNumeric ==
    /\ conv.pc = "value"
    /\ conv' = [conv EXCEPT !.pc = "done", !.by = "_convert_to_numeric",
                            !.result = _convert_to_numeric(conv.value)]
    /\ UNCHANGED <<cal, rec, refreshVars, metricVars, gatewayVars, setupVars>>

\* a dashboard sensor converts the value
ExtractNumericValue ==
    /\ conv.pc = "value"
    /\ conv' = [conv EXCEPT !.pc = "done", !.by = "_extract_numeric_value",
                            !.result = _extract_numeric_value(conv.value)]
    /\ UNCHANGED <<cal, rec, refreshVars, metricVars, gatewayVars, setupVars>>

NextConv == ConvertToNumeric \/ ExtractNumericValue

SpecConv == InitConv /\ [][NextConv]_vars

---------------------------------------------------------------------------
(* Properties of the conversion *)

\* an amount in parentheses: ( digits ), around which and in which $ and , may stand
IsParenthesised(cs) ==
    LET bare == Remove(cs, {"$", ","})
    IN  /\ Len(bare) >= 3
        /\ bare[1] = "(" /\ bare[Len(bare)] = ")"
        /\ IsUnsignedNumber(SubSeq(bare, 2, Len(bare) - 1))

ParenthesisedValue(cs) ==
    LET bare == Remove(cs, {"$", ","})
        u == UnsignedValue(SubSeq(bare, 2, Len(bare) - 1))
    IN  PyFloat(-u.m, u.e)

\* C15: the conversion never raises; None gives None, a number n gives float(n), a
\* numeric string has $ and , stripped and an amount in parentheses is read as
\* negative, and a value that is no number gives None
C15_ValueCoercion ==
    conv.pc = "done" =>
        /\ conv.result.ok
        /\ conv.value = PyNone => conv.result.v = PyNone
        /\ IsNum(conv.value) => conv.result.v = PyFloat(conv.value.n, 0)
        /\ conv.value.t \in {"list", "dict"} => conv.result.v = PyNone
        /\ conv.value.t = "str" =>
            /\ IsParenthesised(conv.value.s) =>
                 conv.result.v = ParenthesisedValue(conv.value.s)
            /\ FloatOfText(Remove(conv.value.s, {"$", ","})).ok =>
                 conv.result = FloatOfText(Remove(conv.value.s, {"$", ","}))
            /\ (\A i \in 1..Len(conv.value.s) : conv.value.s[i] \notin DigitChars) =>
                 conv.result.v = PyNone

---------------------------------------------------------------------------
(* calendar.py: the events of a calendar entity *)

\* a moment is counted in hours from 2024-01-01 00:00, local time
DateTime(h) == [t |-> "datetime", h |-> h]
OneDay == 24

\* datetime.strptime over date_formats, on the date strings of the service
StrpTime(s) ==
    CASE s = "2024-01-01" -> Ok(DateTime(0))
      [] s = "2024-01-02" -> Ok(DateTime(24))
      [] s = "2024-01-03T00:00:00" -> Ok(DateTime(48))
      [] s = "2024-01-04 12:00" -> Ok(DateTime(84))
      [] OTHER -> Raise("ValueError")

\* not date_value
IsFalsy(v) ==
    \/ v = PyNone
    \/ v = PyStr("")
    \/ v = EmptyList
    \/ v = EmptyDict
    \/ IsNum(v) /\ v.n = 0

\* 2024-01-01 00:00 in seconds since the epoch
Epoch2024 == 1704067200

\* _parse_date: a datetime, or None for a value that is empty, is no date or has a
\* format that is not supported.  The dates of the model lie in January 2024 and the
\* numbers are timestamps in seconds.
RECURSIVE _parse_date(_)
_parse_date(date_value) ==
    IF IsFalsy(date_value) THEN PyNone
    ELSE IF date_value.t = "str" THEN
        LET r == StrpTime(date_value.s) IN IF r.ok THEN r.v ELSE PyNone
    ELSE IF IsNum(date_value) THEN DateTime((date_value.n - Epoch2024) \div 3600)
    ELSE IF IsDict(date_value) THEN
        IF {"year", "month", "day"} \subseteq DOMAIN date_value.d
            THEN IF /\ date_value.d["year"] = PyNum(2024)
                    /\ date_value.d["month"] = PyNum(1)
                    /\ IsNum(date_value.d["day"])
                    /\ date_value.d["day"].n \in 1..31
                    THEN DateTime((date_value.d["day"].n - 1) * OneDay)
                    ELSE PyNone
        ELSE IF "date" \in DOMAIN date_value.d /\ _parse_date(date_value.d["date"]) # PyNone
            THEN _parse_date(date_value.d["date"])
        ELSE IF "time" \in DOMAIN date_value.d /\ _parse_date(date_value.d["time"]) # PyNone
            THEN _parse_date(date_value.d["time"])
        ELSE IF "timestamp" \in DOMAIN date_value.d
                    /\ _parse_date(date_value.d["timestamp"]) # PyNone
            THEN _parse_date(date_value.d["timestamp"])
        ELSE PyNone
    ELSE PyNone

\* event_data.get(a) or event_data.get(b)
GetEither(event_data, a, b) ==
    LET first == DictGet(event_data, a, PyNone)
    IN  IF ~first.ok THEN first
        ELSE IF ~IsFalsy(first.v) THEN first
        ELSE DictGet(event_data, b, PyNone)

\* the first of the fields that the record has with a value that is not empty
RECURSIVE FirstField(_, _, _)
FirstField(event_data, fields, default) ==
    IF fields = <<>> THEN default
    ELSE IF Head(fields) \in DOMAIN event_data.d /\ ~IsFalsy(event_data.d[Head(fields)])
        THEN event_data.d[Head(fields)]
    ELSE FirstField(event_data, Tail(fields), default)

_get_event_summary(event_data, query_name) ==
    FirstField(event_data, <<"summary", "title", "name", "description", "memo">>,
               PyStr(query_name))

_get_event_description(event_data) ==
    FirstField(event_data, <<"description", "memo", "notes", "details", "summary">>, PyNone)

_get_event_location(event_data) ==
    FirstField(event_data, <<"location", "place", "address", "venue">>, PyNone)

\* str(event_data.get("id", ""))
UidOf(event_data) ==
    LET id == DataGet(event_data.d, "id", PyStr(""))
    IN  IF id = PyNum(1) THEN "1"
        ELSE IF id = PyNum(2) THEN "2"
        ELSE IF id = PyNum(3) THEN "3"
        ELSE IF id = PyNum(4) THEN "4"
        ELSE ""

\* the host's CalendarEvent(...): an event whose end is after its start is accepted; one
\* whose end is not after its start is accepted as it is or refused with an exception,
\* depending on the host's version (strict)
CalendarEvent(strict, summary, start, end, description, location, uid) ==
    IF strict /\ end.h <= start.h THEN Raise("HomeAssistantError")
    ELSE Ok([summary |-> summary, start |-> start, end |-> end,
             description |-> description, location |-> location, uid |-> uid])

\* variant: a record without an end gets an event that ends when it starts
EndSameAsStart(start_date) == start_date

\* end_date = start_date + timedelta(days=1)
DefaultEnd(start_date) == DateTime(start_date.h + OneDay)

\* the body of the loop of events: Ok(the event), or Raise when the record is skipped
EventOf(strict, event_data, query_name) ==
    LET start_value == GetEither(event_data, "dtstart", "start")
        start_date == _parse_date(start_value.v)
        end_value == GetEither(event_data, "dtend", "end")
        parsed_end == _parse_date(end_value.v)
        end_date == IF parsed_end = PyNone THEN DefaultEnd(start_date) ELSE parsed_end
    IN  IF ~start_value.ok THEN start_value
        ELSE IF start_date = PyNone THEN Raise("continue")
        ELSE CalendarEvent(strict,
                           _get_event_summary(event_data, query_name),
                           start_date, end_date,
                           _get_event_description(event_data),
                           _get_event_location(event_data),
                           UidOf(event_data))

\* the events of the records in their order, the skipped ones left out
RECURSIVE EventsOf(_, _, _)
EventsOf(strict, calendar_data, query_name) ==
    IF calendar_data = <<>> THEN <<>>
    ELSE LET r == EventOf(strict, Head(calendar_data), query_name)
         IN  (IF r.ok THEN <<r.v>> ELSE <<>>)
                \o EventsOf(strict, Tail(calendar_data), query_name)

\* events.sort(key=lambda x: x.start): the sort is stable
RECURSIVE SortByStart(_)
SortByStart(events) ==
    IF events = <<>> THEN <<>>
    ELSE LET least == CHOOSE i \in 1..Len(events) :
                        /\ \A j \in 1..Len(events) : events[i].start.h <= events[j].start.h
                        /\ \A j \in 1..(i - 1) : events[j].start.h # events[i].start.h
             rest == [k \in 1..(Len(events) - 1) |->
                        IF k < least THEN events[k] ELSE events[k + 1]]
         IN  <<events[least]>> \o SortByStart(rest)

\* FinanceAssistantCalendar.events, given what coordinator.data["calendars"] holds for
\* the query (Absent: nothing)
events(strict, calendar_data, query_name) ==
    IF calendar_data = Absent THEN <<>>
    ELSE IF IsFalsy(calendar_data) \/ ~IsList(calendar_data) THEN <<>>
    ELSE SortByStart(EventsOf(strict, calendar_data.l, query_name))

\* FinanceAssistantCalendar.event: the first of the events, or None
event(strict, calendar_data, query_name) ==
    LET all == events(strict, calendar_data, query_name)
    IN  IF all = <<>> THEN PyNone ELSE all[1]

\* the values under a record's start and end keys
Jan2 == PyStr("2024-01-02")
Jan3 == PyStr("2024-01-03T00:00:00")
NoDateText == PyStr("next week")

StartShapes ==
    {<<>>, "dtstart" :> Jan2, "start" :> Jan3, "dtstart" :> NoDateText,
     ("dtstart" :> PyStr("")) @@ ("start" :> Jan2),
     "start" :> PyDict(("year" :> PyNum(2024)) @@ ("month" :> PyNum(1)) @@ ("day" :> PyNum(5)))}

EndShapes ==
    {<<>>, "dtend" :> PyStr("2024-01-01"), "end" :> Jan2, "dtend" :> PyStr("2024-01-04 12:00"),
     "end" :> NoDateText, "dtend" :> PyNone}

\* the source records: a dict with any start and any end, or something that is no dict
RecordShapes ==
    {PyDict(st @@ en @@ ("summary" :> PyStr("Rent"))) : st \in StartShapes, en \in EndShapes}
        \cup {PyNum(7)}

\* the record with its id
WithId(record, id) ==
    IF IsDict(record) THEN PyDict(record.d @@ ("id" :> PyNum(id))) ELSE record

MaxRecords == 2

\* what coordinator.data["calendars"] holds for the query: a list of records with the
\* ids 1, 2, ..., or something that is no list, or nothing
CalendarSources ==
    {PyList([i \in DOMAIN rs |-> WithId(rs[i], i)]) :
        rs \in UNION {[1..n -> RecordShapes] : n \in 0..MaxRecords}}
        \cup {Absent, PyNone, EmptyDict}

InitCalendar ==
    /\ RefreshQuiet
    /\ MetricQuiet
    /\ GatewayQuiet /\ SetupQuiet
    /\ conv = Off /\ rec = Off
    /\ cal \in {[pc |-> "data", strict |-> strict, source |-> source, events |-> <<>>,
                 now |-> DateTime(0), event |-> PyNone] :
                    strict \in BOOLEAN, source \in CalendarSources}

\* the entity's events are read
ReadEvents ==
    /\ cal.pc = "data"
    /\ cal' = [cal EXCEPT !.pc = "done",
                          !.events = events(cal.strict, cal.source, "Bills")]
    /\ UNCHANGED <<conv, rec, refreshVars, metricVars, gatewayVars, setupVars>>

\* the moments at which the host asks for the entity's state: 2024-01-01 12:00,
\* 2024-01-03 12:00 and 2024-01-09 08:00
Moments == {DateTime(12), DateTime(60), DateTime(200)}

\* the host reads the entity's event at some moment
ReadEvent ==
    /\ cal.pc = "done"
    /\ \E now \in Moments :
        cal' = [cal EXCEPT !.pc = "event",
                              !.now = now,
                              !.event = event(cal.strict, cal.source, "Bills")]
    /\ UNCHANGED <<conv, rec, refreshVars, metricVars, gatewayVars, setupVars>>

NextCalendar == ReadEvents \/ ReadEvent

SpecCalendar == InitCalendar /\ [][NextCalendar]_vars

---------------------------------------------------------------------------
(* Properties of the calendar *)

\* the source records of the calendar
SourceRecords == IF cal.source # Absent /\ IsList(cal.source) THEN cal.source.l ELSE <<>>

\* the start and the end a record gives, PyNone when it gives none that parses
StartGiven(record) ==
    IF IsDict(record) THEN _parse_date(GetEither(record, "dtstart", "start").v) ELSE PyNone
EndGiven(record) ==
    IF IsDict(record) THEN _parse_date(GetEither(record, "dtend", "end").v) ELSE PyNone

\* the events produced for the record
EventsFor(record) ==
    IF ~IsDict(record) THEN {}
    ELSE {i \in 1..Len(cal.events) : cal.events[i].uid = UidOf(record)}

\* C16: every event produced ends no earlier than it starts, and a record whose end is
\* earlier than its start has an event that ends one day after its start
C16_EndNotBeforeStart ==
    cal.pc = "done" =>
        /\ \A i \in 1..Len(cal.events) : cal.events[i].end.h >= cal.events[i].start.h
        /\ \A k \in 1..Len(SourceRecords) :
            LET record == SourceRecords[k]
                start == StartGiven(record)
                end == EndGiven(record)
            IN  start # PyNone /\ end # PyNone /\ end.h < start.h =>
                    \E i \in EventsFor(record) :
                        /\ cal.events[i].start = start
                        /\ cal.events[i].end = DateTime(start.h + OneDay)

\* C17: a record with a start that parses and an end that is missing or does not parse
\* has one event, from its start to one day later; a record without a start that parses
\* has no event, whatever the other records are
C17_DefaultSpan ==
    cal.pc = "done" =>
        \A k \in 1..Len(SourceRecords) :
            LET record == SourceRecords[k]
                start == StartGiven(record)
            IN  /\ start # PyNone /\ EndGiven(record) = PyNone =>
                    /\ Cardinality(EventsFor(record)) = 1
                    /\ \A i \in EventsFor(record) :
                        /\ cal.events[i].start = start
                        /\ cal.events[i].end = DateTime(start.h + OneDay)
                /\ start = PyNone => EventsFor(record) = {}

\* C17 witness: of a record whose start is no date and a record that starts on
\* 2024-01-02 and has no end, the second alone has an event, to 2024-01-03
C17_Witness ==
    /\ cal.pc = "done"
    /\ Len(SourceRecords) = 2
    /\ IsDict(SourceRecords[1]) /\ IsDict(SourceRecords[2])
    /\ "dtstart" \in DOMAIN SourceRecords[1].d /\ SourceRecords[1].d["dtstart"] = NoDateText
    /\ DOMAIN SourceRecords[2].d = {"dtstart", "summary", "id"}
    /\ Len(cal.events) = 1
    /\ cal.events[1].uid = "2"
    /\ cal.events[1].start = DateTime(24)
    /\ cal.events[1].end = DateTime(48)

\* the events that have not ended at the moment now, by their place in the list
Upcoming(all, now) == {i \in 1..Len(all) : all[i].end.h > now.h}

\* C22: the events are in non-decreasing order of start, and event is the next upcoming
\* event: the earliest of the events that have not ended at the current time, or None
\* when every event has ended or there is none
C22_NextUpcomingEvent ==
    /\ cal.pc \in {"done", "event"} =>
        \A i, j \in 1..Len(cal.events) :
            i < j => cal.events[i].start.h <= cal.events[j].start.h
    /\ cal.pc = "event" =>
        LET upcoming == Upcoming(cal.events, cal.now)
        IN  IF upcoming = {} THEN cal.event = PyNone
            ELSE cal.event = cal.events[CHOOSE i \in upcoming : \A j \in upcoming : i <= j]

---------------------------------------------------------------------------
(* calendar/enhanced_calendar.py: the events of a recurring transaction *)

\* a date is counted in days from 2024-01-01
Date(n) == [t |-> "date", n |-> n]

IsLeap(year) == year % 4 = 0 /\ (year % 100 # 0 \/ year % 400 = 0)

DaysInMonth(year, month) ==
    IF month = 2 THEN (IF IsLeap(year) THEN 29 ELSE 28)
    ELSE IF month \in {4, 6, 9, 11} THEN 30
    ELSE 31

\* the days of the year before the first of the month
RECURSIVE DaysBeforeMonth(_, _)
DaysBeforeMonth(year, month) ==
    IF month = 1 THEN 0
    ELSE DaysBeforeMonth(year, month - 1) + DaysInMonth(year, month - 1)

\* the days from 2024-01-01 to the first of January of the year
RECURSIVE DaysBeforeYear(_)
DaysBeforeYear(year) ==
    IF year <= 2024 THEN 0
    ELSE DaysBeforeYear(year - 1) + (IF IsLeap(year - 1) THEN 366 ELSE 365)

\* date(year, month, day): ValueError when the month has no such day
MakeDate(year, month, day) ==
    IF day \in 1..DaysInMonth(year, month)
        THEN Ok(Date(DaysBeforeYear(year) + DaysBeforeMonth(year, month) + day - 1))
        ELSE Raise("ValueError")

\* current_date.year, .month and .day
YearOf(d) ==
    CHOOSE year \in 2024..2030 : DaysBeforeYear(year) <= d.n /\ d.n < DaysBeforeYear(year + 1)
MonthOf(d) ==
    LET inYear == d.n - DaysBeforeYear(YearOf(d))
    IN  CHOOSE month \in 1..12 :
            /\ DaysBeforeMonth(YearOf(d), month) <= inYear
            /\ inYear < DaysBeforeMonth(YearOf(d), month) + DaysInMonth(YearOf(d), month)
DayOf(d) == d.n - DaysBeforeYear(YearOf(d)) - DaysBeforeMonth(YearOf(d), MonthOf(d)) + 1

\* EnhancedFinancialCalendar._parse_date: a date, or None for a value that is empty,
\* is no string or is a string in another format.  The strings of the model:
ParseDateOnly(date_value) ==
    IF IsFalsy(date_value) THEN PyNone
    ELSE IF date_value.t # "str" THEN PyNone
    ELSE CASE date_value.s = "2024-01-15" -> Date(14)
           [] date_value.s = "2024-01-31" -> Date(30)
           [] date_value.s = "2024-02-10T09:00:00Z" -> Date(40)
           [] date_value.s = "2024-03-01" -> Date(60)
           [] OTHER -> PyNone

\* variant: a frequency that is not known leaves the date where it is
NextOccurrenceStalls(current_date, frequency) ==
    IF frequency = PyStr("daily") THEN Date(current_date.n + 1)
    ELSE IF frequency = PyStr("weekly") THEN Date(current_date.n + 7)
    ELSE IF frequency = PyStr("biweekly") THEN Date(current_date.n + 14)
    ELSE IF frequency = PyStr("monthly") THEN Date(current_date.n + 30)
    ELSE IF frequency = PyStr("quarterly") THEN Date(current_date.n + 90)
    ELSE IF frequency = PyStr("yearly") THEN Date(current_date.n + 365)
    ELSE current_date

_get_next_occurrence(current_date, frequency) ==
    IF frequency = PyStr("daily") THEN Date(current_date.n + 1)
    ELSE IF frequency = PyStr("weekly") THEN Date(current_date.n + 7)
    ELSE IF frequency = PyStr("biweekly") THEN Date(current_date.n + 14)
    ELSE IF frequency = PyStr("monthly") THEN
        LET day == DayOf(current_date)
            month == IF MonthOf(current_date) + 1 > 12 THEN 1 ELSE MonthOf(current_date) + 1
            year == IF MonthOf(current_date) + 1 > 12
                        THEN YearOf(current_date) + 1 ELSE YearOf(current_date)
            same_day == MakeDate(year, month, day)
        IN  IF same_day.ok THEN same_day.v
            ELSE IF month = 12 THEN Date(MakeDate(year + 1, 1, 1).v.n - 1)
            ELSE Date(MakeDate(year, month + 1, 1).v.n - 1)
    ELSE IF frequency = PyStr("quarterly") THEN Date(current_date.n + 90)
    ELSE IF frequency = PyStr("yearly") THEN Date(current_date.n + 365)
    ELSE Date(current_date.n + 30)

\* the host's CalendarEvent(summary=, description=, start=, end=, location=, uid=,
\* rrule=None, color=): called with a color and with an end equal to the start, which
\* the host accepts or refuses with an exception depending on its version (accepts)
ColoredCalendarEvent(accepts, summary, description, start, end, location, uid) ==
    IF ~accepts THEN Raise("TypeError")
    ELSE Ok([summary |-> summary, description |-> description, start |-> start,
             end |-> end, location |-> location, uid |-> uid])

\* the event of one occurrence of the recurring transaction
OccurrenceEvent(accepts, recurring, current_date) ==
    LET amount == DataGet(recurring, "amount", PyNum(0))
        category_name == DataGet(recurring, "category_name", PyStr("Unknown"))
        payee_name == DataGet(recurring, "payee_name", PyStr("Unknown"))
        account_name == DataGet(recurring, "account_name", PyStr("Unknown"))
    IN  ColoredCalendarEvent(accepts,
            <<"Recurring: ", payee_name, " - ", category_name>>,
            <<"Amount: $", amount, "Account: ", account_name, "Type: ",
              DataGet(recurring, "transaction_type", PyStr("expense"))>>,
            current_date, current_date, account_name,
            <<"fa_recurring_", DataGet(recurring, "id", PyStr("unknown")), current_date>>)

\* the recurring transactions of the service
Frequencies ==
    {PyStr("daily"), PyStr("weekly"), PyStr("biweekly"), PyStr("monthly"),
     PyStr("quarterly"), PyStr("yearly"), PyStr("fortnightly"), PyNone, Absent}
RecurringStarts ==
    {PyStr("2024-01-15"), PyStr("2024-01-31"), PyStr("2024-02-10T09:00:00Z"),
     PyStr("soon"), Absent}
RecurringEnds == {Absent, PyStr("2024-03-01"), PyStr("2024-01-15")}

\* the recurring record without the keys whose value is Absent
RecurringRecord(frequency, start, end) ==
    LET all == ("id" :> PyNum(7)) @@ ("amount" :> PyNum(1200))
                @@ ("payee_name" :> PyStr("Landlord")) @@ ("frequency" :> frequency)
                @@ ("start_date" :> start) @@ ("end_date" :> end)
    IN  [k \in {j \in DOMAIN all : all[j] # Absent} |-> all[k]]

\* the last day a requested range reaches
MaxDay == 75

\* the requested ranges: from 2024-01-01, from 2024-02-01, and one that is empty
RequestedRanges == {<<0, 45>>, <<31, MaxDay>>, <<20, 10>>}

InitRecurring ==
    /\ RefreshQuiet
    /\ MetricQuiet
    /\ GatewayQuiet /\ SetupQuiet
    /\ conv = Off /\ cal = Off
    /\ rec \in {[pc |-> "call", accepts |-> accepts,
                 recurring |-> RecurringRecord(frequency, start, end),
                 start_date |-> Date(range[1]), end_date |-> Date(range[2]),
                 frequency |-> PyNone, end_date_recurring |-> PyNone,
                 current_date |-> PyNone, events |-> <<>>, error |-> "none"] :
                    accepts \in BOOLEAN, frequency \in Frequencies,
                    start \in RecurringStarts, end \in RecurringEnds,
                    range \in RequestedRanges}

\* _generate_recurring_events up to the loop: the locals, and the return of a record
\* without a start
GenerateRecurringEvents ==
    /\ rec.pc = "call"
    /\ LET start_date_recurring ==
               ParseDateOnly(DataGet(rec.recurring, "start_date", PyNone))
       IN  rec' = [rec EXCEPT
                !.frequency = DataGet(rec.recurring, "frequency", PyStr("monthly")),
                !.end_date_recurring =
                    ParseDateOnly(DataGet(rec.recurring, "end_date", PyNone)),
                !.current_date = start_date_recurring,
                !.pc = IF start_date_recurring = PyNone THEN "returned" ELSE "while"]
    /\ UNCHANGED <<conv, cal, refreshVars, metricVars, gatewayVars, setupVars>>

\* one test of the loop's condition and one pass through its body; an exception in the
\* body is caught by the function's except block, which returns the events so far
WhileCurrentDate ==
    /\ rec.pc = "while"
    /\ LET in_range == /\ rec.start_date.n <= rec.current_date.n
                       /\ rec.current_date.n <= rec.end_date.n
           made == OccurrenceEvent(rec.accepts, rec.recurring, rec.current_date)
           appended == IF in_range THEN Append(rec.events, made.v) ELSE rec.events
           next == _get_next_occurrence(rec.current_date, rec.frequency)
       IN  IF ~(rec.current_date.n <= rec.end_date.n)
               THEN rec' = [rec EXCEPT !.pc = "returned"]
           ELSE IF in_range /\ ~made.ok
               THEN rec' = [rec EXCEPT !.pc = "returned", !.error = made.exc]
           ELSE IF rec.end_date_recurring = PyNone
               THEN rec' = [rec EXCEPT !.pc = "returned", !.error = "TypeError",
                                       !.events = appended, !.current_date = next]
           ELSE IF \/ next.n > rec.end_date_recurring.n
                   \/ next.n > rec.end_date.n + 365
               THEN rec' = [rec EXCEPT !.pc = "returned",
                                       !.events = appended, !.current_date = next]
           ELSE rec' = [rec EXCEPT !.events = appended, !.current_date = next]
    /\ UNCHANGED <<conv, cal, refreshVars, metricVars, gatewayVars, setupVars>>

NextRecurring == GenerateRecurringEvents \/ WhileCurrentDate

SpecRecurring == InitRecurring /\ [][NextRecurring]_vars

\* the function runs on: none of its steps waits for anything
SpecRecurringFair == SpecRecurring /\ WF_vars(NextRecurring)

---------------------------------------------------------------------------
(* Properties of the recurring events *)

\* the days of the events produced
EventDays == {rec.events[i].start.n : i \in 1..Len(rec.events)}

\* C23: for every recurring record, every frequency and every requested range
\* _generate_recurring_events returns: the date of the occurrence grows with every
\* pass through the loop, and every event produced lies in the requested range
C23_RecurringTerminates ==
    /\ [](rec.pc # "off" =>
            \A i \in 1..Len(rec.events) :
                /\ rec.start_date.n <= rec.events[i].start.n
                /\ rec.events[i].start.n <= rec.end_date.n)
    /\ [][rec.pc = "while" /\ rec'.current_date # rec.current_date =>
            rec'.current_date.n > rec.current_date.n]_vars
    /\ [][rec.pc = "while" /\ rec'.pc = "while" => rec'.current_date # rec.current_date]_vars
    /\ <>(rec.pc = "returned")

\* C23 witness: a weekly record that ends on 2024-03-01 has returned with its events
\* of February, after passing the weeks of January that lie before the range
C23_Witness ==
    /\ rec.pc = "returned"
    /\ rec.error = "none"
    /\ rec.frequency = PyStr("weekly")
    /\ rec.start_date = Date(31)
    /\ EventDays = {35, 42, 49, 56}
    /\ rec.current_date = Date(63)

\* the days of the occurrences from current_date on that lie in the range
RECURSIVE OccurrenceDays(_, _, _, _)
OccurrenceDays(current_date, frequency, start_date, end_date) ==
    IF current_date.n > end_date.n THEN {}
    ELSE (IF current_date.n >= start_date.n THEN {current_date.n} ELSE {})
            \cup OccurrenceDays(_get_next_occurrence(current_date, frequency), frequency,
                                start_date, end_date)

\* C24: for a recurring transaction with a start_date and no end_date,
\* _generate_recurring_events returns one event for every occurrence (the start_date
\* advanced again and again by the frequency) that lies in the requested range
C24_EveryOccurrence ==
    LET start == ParseDateOnly(DataGet(rec.recurring, "start_date", PyNone))
    IN  ( /\ rec.pc = "returned"
          /\ start # PyNone
          /\ "end_date" \notin DOMAIN rec.recurring )
        => /\ EventDays = OccurrenceDays(start, rec.frequency, rec.start_date, rec.end_date)
           /\ Len(rec.events) = Cardinality(EventDays)

---------------------------------------------------------------------------
(* config_flow.py and __init__.py: the config flow and the setup of the entry *)

\* d.update(u)
Update(d, u) == [k \in DOMAIN d \cup DOMAIN u |-> IF k \in DOMAIN u THEN u[k] ELSE d[k]]

\* "Invalid API key" in str(e)
MentionsInvalidKey(exc) == exc = "ValueError: Invalid API key"

\* variant: the service is taken to be healthy whatever it answers
HealthAlwaysTrue(response) == Ok(TRUE)

\* health_check: GET /api/health/; Ok(True), or Ok(False) when the request raised
health_check(response) == Ok(_make_request(response).ok)

\* the requests _validate_connection sends: the health check and, when it is healthy,
\* the three probes
ValidationRequests(health, probes) ==
    <<[path |-> "/api/health/", response |-> health]>>
        \o (IF _make_request(health).ok
               THEN <<[path |-> Path("enhanced_categories"), response |-> probes[1]],
                      [path |-> Path("enhanced_transactions"), response |-> probes[2]],
                      [path |-> Path("recurring_transactions"), response |-> probes[3]]>>
               ELSE <<>>)

\* _validate_connection: the exception of a probe is logged and dropped; the handler
\* of the outer try gets CannotConnect(), whose str is empty
_validate_connection(health, probes) ==
    LET is_healthy == health_check(health)
        e == "CannotConnect"
    IN  IF is_healthy.v THEN Ok(PyNone)
        ELSE IF MentionsInvalidKey(e) THEN Raise("InvalidAuth")
        ELSE Raise("CannotConnect")

\* what the user step puts in errors["base"]
ErrorOf(exc) ==
    IF exc = "CannotConnect" THEN "cannot_connect"
    ELSE IF exc = "InvalidAuth" THEN "invalid_auth"
    ELSE "unknown"

NoErrors == "none"

\* the form of the user step filled in
UserInputs ==
    {[name |-> "Finance Assistant", host |-> "finance.local", port |-> 8080,
      api_key |-> "k-123", ssl |-> FALSE, scan_interval |-> 300]}

\* the form of the enhanced-options step filled in, and left as it is (the defaults)
OptionInputs ==
    {[enable_enhanced_sensors |-> s, enable_enhanced_calendars |-> c,
      update_interval_financial |-> f, update_interval_calendar |-> 30] :
        s \in BOOLEAN, c \in BOOLEAN, f \in {5, 15, 60}}

\* what the service answers a request of the validation or of the setup
HealthResponses == {Http(200, EmptyDict), Http(401, PyNone), Http(500, PyNone), NetworkError}
ProbeResponses == {Http(200, EmptyList), Http(401, PyNone)}

\* before async_setup_entry is called: hass.data[DOMAIN] holds the records of the
\* entries set up so far (none: the key is missing), no coordinator has been made for
\* this entry and none of its operations has run
NoSetup(records) ==
    [pc |-> "none", result |-> "none", domain |-> records # <<>>, data |-> records,
     forwarded |-> <<>>, health |-> NetworkError,
     made |-> 0, shutdowns |-> <<>>, ops |-> 0, last |-> "none",
     unload_ok |-> FALSE, returned |-> "none",
     before |-> [domain |-> FALSE, data |-> <<>>, shutdowns |-> <<>>]]

\* the flow is started: async_step_user(None) shows the form
FlowInit ==
    /\ flow = [pc |-> "user", errors |-> NoErrors, config |-> <<>>, validation |-> <<>>]
    /\ entry = Off
    /\ hass = NoSetup(<<>>)

\* async_step_user(user_input)
async_step_user ==
    /\ flow.pc = "user"
    /\ \E user_input \in UserInputs, health \in HealthResponses,
          probes \in [1..3 -> ProbeResponses] :
        LET r == _validate_connection(health, probes)
        IN  flow' = IF r.ok
                        THEN [pc |-> "enhanced_options", errors |-> NoErrors,
                              config |-> user_input,
                              validation |-> ValidationRequests(health, probes)]
                        ELSE [pc |-> "user", errors |-> ErrorOf(r.exc),
                              config |-> flow.config,
                              validation |-> ValidationRequests(health, probes)]
    /\ UNCHANGED <<entry, hass, refreshVars, metricVars, gatewayVars, adapterVars>>

\* async_step_enhanced_options(user_input): self._config.update(user_input), then
\* async_create_entry(title, data=self._config); the entry's options are empty
CreateEntry(config, user_input) == [data |-> Update(config, user_input), options |-> <<>>]

async_step_enhanced_options ==
    /\ flow.pc = "enhanced_options"
    /\ \E user_input \in OptionInputs :
        /\ entry' = CreateEntry(flow.config, user_input)
        /\ flow' = [flow EXCEPT !.pc = "created", !.config = Update(@, user_input)]
    /\ UNCHANGED <<hass, refreshVars, metricVars, gatewayVars, adapterVars>>

EntryId == "entry1"

\* async_setup_entry raises ConfigEntryNotReady (the except block at the end)
NotReady(h) == [h EXCEPT !.pc = "done", !.result = "ConfigEntryNotReady"]

\* async_setup_entry up to the end of its first await: the configuration is read, the
\* client is made and the health check is awaited; an unhealthy service raises, a healthy
\* one has the coordinator made and stored in hass.data
SetupHealthCheck ==
    /\ entry # Off
    /\ hass.pc = "none"
    /\ \E response \in HealthResponses :
        LET options == entry.options
            update_interval_financial == DataGet(options, "update_interval_financial", 15)
            is_healthy == health_check(response)
            started == [hass EXCEPT !.domain = TRUE, !.health = response]
        IN  hass' =
                IF ~is_healthy.v THEN NotReady(started)
                ELSE [started EXCEPT
                        !.pc = "first_refresh",
                        !.made = hass.made + 1,
                        !.data = Put(hass.data, EntryId,
                                     [coordinator |->
                                        [update_interval |-> update_interval_financial,
                                         id |-> hass.made + 1],
                                      config |-> entry.data,
                                      options |-> options])]
    /\ UNCHANGED <<flow, entry, refreshVars, metricVars, gatewayVars, adapterVars>>

\* await coordinator.async_config_entry_first_refresh(): the host calls
\* _async_update_data
SetupFirstRefresh == hass.pc = "first_refresh" /\ StartFirst

\* the host's first refresh raises ConfigEntryNotReady instead of giving data
FirstRefreshFails ==
    /\ hass.pc = "first_refresh"
    /\ pc = "idle"
    /\ outcome = "none"
    /\ hass' = NotReady(hass)
    /\ outcome' = "UpdateFailed"
    /\ UNCHANGED <<pc, heap, data, published, clock, sent, atStart, lastRead,
                   flow, entry, metricVars, gatewayVars, adapterVars>>

\* platforms_to_setup
PlatformsToSetup(enable_enhanced_sensors, enable_enhanced_calendars) ==
       (IF enable_enhanced_sensors THEN <<"sensor">> ELSE <<>>)
    \o (IF enable_enhanced_calendars THEN <<"calendar">> ELSE <<>>)
    \o <<"calendar">>

\* async_setup_entry after the first refresh: each platform of platforms_to_setup is
\* forwarded, and True is returned
SetupForward ==
    /\ hass.pc = "first_refresh"
    /\ pc = "idle"
    /\ outcome = "ok"
    /\ LET options == entry.options
           enable_enhanced_sensors == DataGet(options, "enable_enhanced_sensors", TRUE)
           enable_enhanced_calendars == DataGet(options, "enable_enhanced_calendars", TRUE)
       IN  hass' = [hass EXCEPT
                      !.pc = "done",
                      !.result = "True",
                      !.forwarded =
                          PlatformsToSetup(enable_enhanced_sensors, enable_enhanced_calendars)]
    /\ UNCHANGED <<flow, entry, refreshVars, metricVars, gatewayVars, adapterVars>>

InitSetup ==
    /\ pc = "idle"
    /\ heap = [r \in Refs |-> <<>>]
    /\ data = NoRef
    /\ published = NoRef
    /\ clock = 0
    /\ sent = <<>>
    /\ outcome = "none"
    /\ atStart = NoSnapshot
    /\ lastRead = NoRead
    /\ MetricQuiet
    /\ GatewayQuiet /\ AdaptersQuiet
    /\ FlowInit

NextSetup ==
    \/ async_step_user
    \/ async_step_enhanced_options
    \/ SetupHealthCheck
    \/ SetupFirstRefresh
    \/ FirstRefreshFails
    \/ FetchSecondary(SteadyResponses)
    \/ ComputeHealth
    \/ ComputeRisk
    \/ FetchQueries(SteadyResponses)
    \/ FetchDashboard(SteadyResponses)
    \/ FetchCalendars
    \/ Return
    \/ Publish
    \/ SetupForward

\* a user goes through the config flow and the host sets the created entry up
SpecSetup == InitSetup /\ [][NextSetup]_vars


\* the record of another entry of the integration, set up earlier; its coordinator is
\* not one of this entry's
OtherEntryId == "entry2"
OtherRecord ==
    [coordinator |-> [update_interval |-> 15, id |-> 0], config |-> <<>>, options |-> <<>>]

\* variant: the DOMAIN key is never removed
UnloadKeepsDomain(h, unload_ok) ==
    IF ~unload_ok THEN [h EXCEPT !.returned = "False"]
    ELSE LET remaining == [k \in DOMAIN h.data \ {EntryId} |-> h.data[k]]
         IN  [h EXCEPT
                !.shutdowns = IF EntryId \in DOMAIN h.data
                                 THEN Append(@, h.data[EntryId].coordinator.id) ELSE @,
                !.data = remaining,
                !.returned = "True"]

\* the body of async_unload_entry, given what the host's async_unload_platforms
\* returned: hass after it, with the value returned
UnloadEntry(h, unload_ok) ==
    IF ~unload_ok THEN [h EXCEPT !.returned = "False"]
    ELSE LET remaining == [k \in DOMAIN h.data \ {EntryId} |-> h.data[k]]
         IN  [h EXCEPT
                !.shutdowns = IF EntryId \in DOMAIN h.data
                                 THEN Append(@, h.data[EntryId].coordinator.id) ELSE @,
                !.data = remaining,
                !.domain = remaining # <<>>,
                !.returned = "True"]

\* the most operations the host runs on the entry after its first setup
MaxOps == 3

\* the entry is loaded: its setup returned True and it has not been unloaded
Loaded == hass.pc = "done" /\ hass.result = "True"

\* hass as an operation on the entry finds it
Called(operation, unload_ok) ==
    [hass EXCEPT !.ops = @ + 1, !.last = operation, !.unload_ok = unload_ok,
                 !.before = [domain |-> hass.domain, data |-> hass.data,
                             shutdowns |-> hass.shutdowns]]

\* the host unloads the loaded entry: async_unload_entry(hass, entry)
async_unload_entry ==
    /\ Loaded
    /\ hass.ops < MaxOps
    /\ \E unload_ok \in BOOLEAN :
        hass' = [UnloadEntry(Called("unload", unload_ok), unload_ok) EXCEPT
                    !.pc = IF unload_ok THEN "unloaded" ELSE "done"]
    /\ UNCHANGED <<flow, entry, refreshVars, metricVars, gatewayVars, adapterVars>>

\* a coordinator that has just been made has no data and has not refreshed
NewCoordinator ==
    /\ pc' = "idle"
    /\ heap' = [r \in Refs |-> <<>>]
    /\ data' = NoRef
    /\ published' = NoRef
    /\ sent' = <<>>
    /\ outcome' = "none"
    /\ atStart' = NoSnapshot
    /\ lastRead' = NoRead
    /\ UNCHANGED clock

\* async_reload_entry(hass, entry): async_unload_entry is awaited and what it returns is
\* dropped, then async_setup_entry is called
async_reload_entry ==
    /\ Loaded
    /\ hass.ops < MaxOps
    /\ \E unload_ok \in BOOLEAN :
        hass' = [UnloadEntry(Called("reload", unload_ok), unload_ok) EXCEPT
                    !.pc = "none", !.result = "none", !.forwarded = <<>>]
    /\ NewCoordinator
    /\ UNCHANGED <<flow, entry, metricVars, gatewayVars, adapterVars>>

\* the host calls async_setup_entry again: for an entry it has unloaded, or to retry a
\* setup that raised ConfigEntryNotReady
SetupAgain ==
    /\ \/ hass.pc = "unloaded"
       \/ hass.pc = "done" /\ hass.result = "ConfigEntryNotReady"
    /\ hass.ops < MaxOps
    /\ hass' = [Called("setup", FALSE) EXCEPT
                    !.pc = "none", !.result = "none", !.forwarded = <<>>]
    /\ NewCoordinator
    /\ UNCHANGED <<flow, entry, metricVars, gatewayVars, adapterVars>>

\* the entry the config flow creates from its two forms left at their defaults
CreatedEntry ==
    CreateEntry([name |-> "Finance Assistant", host |-> "finance.local", port |-> 8080,
                 api_key |-> "k-123", ssl |-> FALSE, scan_interval |-> 300],
                [enable_enhanced_sensors |-> TRUE, enable_enhanced_calendars |-> TRUE,
                 update_interval_financial |-> 15, update_interval_calendar |-> 30])

\* the entry exists and has not been set up; another entry of the integration may be
InitLifecycle ==
    /\ pc = "idle"
    /\ heap = [r \in Refs |-> <<>>]
    /\ data = NoRef
    /\ published = NoRef
    /\ clock = 0
    /\ sent = <<>>
    /\ outcome = "none"
    /\ atStart = NoSnapshot
    /\ lastRead = NoRead
    /\ MetricQuiet
    /\ GatewayQuiet /\ AdaptersQuiet
    /\ flow = Off
    /\ entry = CreatedEntry
    /\ hass \in {NoSetup(<<>>), NoSetup(OtherEntryId :> OtherRecord)}

NextLifecycle ==
    \/ SetupHealthCheck
    \/ SetupFirstRefresh
    \/ FirstRefreshFails
    \/ FetchSecondary(SteadyResponses)
    \/ ComputeHealth
    \/ ComputeRisk
    \/ FetchQueries(SteadyResponses)
    \/ FetchDashboard(SteadyResponses)
    \/ FetchCalendars
    \/ Return
    \/ Publish
    \/ SetupForward
    \/ async_unload_entry
    \/ async_reload_entry
    \/ SetupAgain

\* the host sets the entry up, unloads it, reloads it and sets it up again
SpecLifecycle == InitLifecycle /\ [][NextLifecycle]_vars


---------------------------------------------------------------------------
(* Properties of the config flow and of the setup *)

\* the service answered the health check of the setup with 200
SetupHealthy == hass.pc # "none" /\ _make_request(hass.health).ok
\* the first refresh gave the coordinator its data
FirstRefreshDone == pc = "idle" /\ outcome = "ok" /\ published # NoRef

\* C11: async_setup_entry forwards platforms and returns True only when the health check
\* was healthy and the first refresh has completed; when the health check or the first
\* refresh fails it raises ConfigEntryNotReady and no platform is forwarded
C11_SetupGate ==
    /\ hass.result = "True" \/ hass.forwarded # <<>> =>
        /\ SetupHealthy
        /\ FirstRefreshDone
        /\ hass.result = "True"
        /\ hass.forwarded # <<>>
    /\ hass.pc = "done" /\ (~SetupHealthy \/ outcome = "UpdateFailed") =>
        /\ hass.result = "ConfigEntryNotReady"
        /\ hass.forwarded = <<>>

\* C11 witness: a setup that returned True and forwarded its platforms after a healthy
\* check and a first refresh whose account summary failed
C11_Witness ==
    /\ hass.pc = "done"
    /\ hass.result = "True"
    /\ hass.forwarded = <<"sensor", "calendar", "calendar">>
    /\ SetupHealthy
    /\ FirstRefreshDone
    /\ heap[published]["account_summary"] = EmptyDict


\* C12: when the service answers every request of the validation with 401, the user step
\* shows the error invalid_auth, stays on its form and no entry is created
C12_InvalidAuth ==
    ( /\ flow.validation # <<>>
      /\ \A i \in 1..Len(flow.validation) : flow.validation[i].response.status = 401 )
    => /\ flow.errors = "invalid_auth"
       /\ flow.pc = "user"
       /\ entry = Off

\* what the user submitted in the enhanced-options step
Submitted(key) == flow.config[key]

\* C20: the coordinator of the entry polls at the submitted update_interval_financial,
\* and the sensor platform is forwarded exactly when the submitted
\* enable_enhanced_sensors is true
C20_SubmittedOptions ==
    hass.result = "True" =>
        /\ hass.data[EntryId].coordinator.update_interval
              = Submitted("update_interval_financial")
        /\ Has(hass.forwarded, "sensor") <=> Submitted("enable_enhanced_sensors")

---------------------------------------------------------------------------
(* Properties of the recommendations and the alerts *)

\* how many times x occurs in the list l
Occurrences(l, x) == Cardinality({i \in DOMAIN l : l[i] = x})

\* the place of x in the list l, where it occurs
PlaceOf(l, x) == CHOOSE i \in DOMAIN l : l[i] = x

\* the four messages in the order balance, cash flow, expense, recurring
ScoreMessages ==
    <<"Build emergency fund to cover 3-6 months of expenses",
      "Review upcoming expenses and adjust spending patterns",
      "Focus on increasing savings rate through expense reduction",
      "Review recurring obligations and consider reducing non-essential expenses">>

PositiveMessage == "Maintain current financial practices - you're doing great!"

\* the four component scores of a record, in the same order (tenths)
ScoresOf(h) == <<h.balance_score, h.cash_flow_score, h.expense_score, h.recurring_score>>

\* a record the try block of _calculate_financial_health built
HealthComputed == HealthDone /\ mHealth.ok /\ mHealth.v.risk_level # "unknown"

\* C18: recommendations is never empty.  In a record that is not the fallback it holds
\* the message of a component score once when that score is < 50 and not at all
\* otherwise, the messages in the order balance, cash flow, expense, recurring, the
\* positive message exactly when no component score is < 50, and nothing else
C18_Recommendations ==
    /\ HealthDone => Len(mHealth.v.recommendations) >= 1
    /\ HealthComputed =>
        LET recs == mHealth.v.recommendations
            scores == ScoresOf(mHealth.v)
        IN  /\ \A i \in 1..4 :
                Occurrences(recs, ScoreMessages[i]) = (IF scores[i] < 500 THEN 1 ELSE 0)
            /\ \A i, j \in 1..4 :
                i < j /\ scores[i] < 500 /\ scores[j] < 500 =>
                    PlaceOf(recs, ScoreMessages[i]) < PlaceOf(recs, ScoreMessages[j])
            /\ Occurrences(recs, PositiveMessage)
                 = (IF \A i \in 1..4 : scores[i] >= 500 THEN 1 ELSE 0)
            /\ \A k \in DOMAIN recs :
                recs[k] = PositiveMessage \/ \E i \in 1..4 : recs[k] = ScoreMessages[i]

\* C18 witness: a record whose balance and expense scores are exactly 50 and above and
\* whose cash-flow and recurring scores are below 50 holds those two messages, in order
C18_Witness ==
    /\ HealthComputed
    /\ mHealth.v.balance_score = 500
    /\ mHealth.v.cash_flow_score = 250
    /\ mHealth.v.expense_score = 600
    /\ mHealth.v.recurring_score = 400
    /\ mHealth.v.recommendations = <<ScoreMessages[2], ScoreMessages[4]>>

\* the number at summary.key of the snapshot, 0 when the summary or the key is missing
Leaf1(d, summary, key) ==
    IF summary \in DOMAIN d /\ IsDict(d[summary]) /\ key \in DOMAIN d[summary].d
            /\ IsNum(d[summary].d[key])
        THEN d[summary].d[key].n ELSE 0

\* the number at summary.inner.key of the snapshot, 0 when any of the three is missing
Leaf2(d, summary, inner, key) ==
    IF summary \in DOMAIN d /\ IsDict(d[summary]) /\ inner \in DOMAIN d[summary].d
        THEN Leaf1(d[summary].d, inner, key) ELSE 0

\* the three alerts in the order of their rules
AlertMessages ==
    <<"High upcoming expenses detected - review budget",
      "Negative cash flow projected for next 30 days",
      "Low savings rate - consider increasing income or reducing expenses">>

\* the three rules on the snapshot d
AlertRules(d) ==
    <<Leaf1(d, "critical_expenses", "total_critical_amount") > 5000,
      Leaf2(d, "cash_flow_forecast", "next_30_days", "net") < -2000,
      Leaf2(d, "financial_summary", "current_month", "savings_rate") < 10>>

\* C19: no alert occurs twice.  In a record that is not the fallback each of the three
\* alerts is present exactly when its own rule holds of the snapshot, whatever the
\* other two rules and the component scores are: total_critical_amount > 5000,
\* next_30_days.net < -2000, savings_rate < 10, a missing value counting as 0; the
\* alerts stand in the order of the rules and there is no other alert
C19_Alerts ==
    /\ HealthDone =>
        \A i \in 1..3 : Occurrences(mHealth.v.alerts, AlertMessages[i]) <= 1
    /\ HealthComputed =>
        LET alerts == mHealth.v.alerts
            rules == AlertRules(mIn)
        IN  /\ \A i \in 1..3 :
                Occurrences(alerts, AlertMessages[i]) = (IF rules[i] THEN 1 ELSE 0)
            /\ \A i, j \in 1..3 :
                i < j /\ rules[i] /\ rules[j] =>
                    PlaceOf(alerts, AlertMessages[i]) < PlaceOf(alerts, AlertMessages[j])
            /\ \A k \in DOMAIN alerts : \E i \in 1..3 : alerts[k] = AlertMessages[i]

\* C19 witness: a net of -2001 with a critical amount of 5001 and a savings rate of 10
\* raises the first two alerts and not the third, while the cash-flow score is 50 and
\* draws no recommendation
C19_Witness ==
    /\ HealthComputed
    /\ Leaf2(mIn, "cash_flow_forecast", "next_30_days", "net") = -2001
    /\ Leaf1(mIn, "critical_expenses", "total_critical_amount") = 5001
    /\ Leaf2(mIn, "financial_summary", "current_month", "savings_rate") = 10
    /\ mHealth.v.cash_flow_score = 500
    /\ mHealth.v.alerts = <<AlertMessages[1], AlertMessages[2]>>

---------------------------------------------------------------------------
(* Properties of the order of the refresh *)

\* the keys the fetches of a cycle fill
FetchedKeys == Range(Secondary) \cup {"queries", "dashboard", "calendars"}

\* the keys the metric functions fill
DerivedKeys == {"financial_health", "risk_assessment"}

\* C21: in every refresh the metric functions run over the fully assembled snapshot:
\* once the snapshot under construction holds financial_health or risk_assessment,
\* every fetch of the cycle (the ten secondary resources, the catalog, the dashboard
\* and the calendars) has stored its field, and no request is sent afterwards
C21_MetricsAfterFetches ==
    data # NoRef /\ DerivedKeys \cap DOMAIN heap[data] # {} =>
        FetchedKeys \subseteq DOMAIN heap[data]

\* the request of the cycle for the endpoint ep
RequestFor(ep) == CHOOSE i \in 1..Len(sent) : sent[i].path = Path(ep)

\* C25: whatever each endpoint answers (200, 401, 403, 404, 5xx, no answer, a body that
\* is no JSON or has another shape), the catalog endpoint included, _async_update_data
\* does not raise UpdateFailed: the refresh that has ended returned a whole snapshot,
\* which the host published
C25_NeverUpdateFailed ==
    /\ outcome # "UpdateFailed"
    /\ pc = "returned" => DOMAIN heap[data] = SnapshotKeys
    /\ Ended => outcome = "ok" /\ published # NoRef /\ DOMAIN heap[published] = SnapshotKeys

\* C25 witness: a refresh has ended and published its snapshot although the catalog
\* answered 500, the cash-flow forecast 401, the financial summary a JSON array and the
\* categories not at all
C25_Witness ==
    /\ Ended
    /\ outcome = "ok"
    /\ sent[RequestFor("queries")].response = Http(500, PyNone)
    /\ sent[RequestFor("cash_flow_forecast")].response = Http(401, PyNone)
    /\ sent[RequestFor("financial_summary")].response = Http(200, EmptyList)
    /\ sent[RequestFor("enhanced_categories")].response = NetworkError
    /\ heap[published]["queries"] = EmptyList

\* the four summaries the component scores read are all {}
SummariesEmpty(snapshot) ==
    \A ep \in {"account_summary", "cash_flow_forecast", "financial_summary",
               "recurring_summary"} : snapshot[ep] = EmptyDict

\* C26: when the account, cash-flow, financial and recurring summaries are all {}, the
\* returned financial_health is computed from the defaults and is not the fallback:
\* balance_score 0, cash_flow_score 100, expense_score 20, recurring_score 100,
\* overall_score 55.0, risk_level "high"; the risk_assessment has the one medium item of
\* the savings rate, no high item, and overall_risk_score 15
C26_EmptyDefaults ==
    Returned /\ SummariesEmpty(LastSnapshot) =>
        LET h == LastSnapshot["financial_health"]
            r == LastSnapshot["risk_assessment"]
        IN  /\ h.balance_score = 0
            /\ h.cash_flow_score = 1000
            /\ h.expense_score = 200
            /\ h.recurring_score = 1000
            /\ h.overall_score = 550
            /\ h.risk_level = "high"
            /\ r.medium_risk_items = <<"Savings rate below 10%">>
            /\ r.high_risk_items = <<>>
            /\ Len(r.risk_factors) = 1
            /\ r.risk_factors[1].category = "expenses"
            /\ r.overall_risk_score = 15

\* C26 witness: a refresh in which every one of the ten secondary requests was answered
\* 500 has returned a snapshot whose four summaries are {} and whose risk_level is high
C26_Witness ==
    /\ Returned
    /\ \A i \in 1..Len(Secondary) : sent[i].response = Http(500, PyNone)
    /\ SummariesEmpty(LastSnapshot)
    /\ LastSnapshot["financial_health"].risk_level = "high"
    /\ LastSnapshot["risk_assessment"].overall_risk_score = 15

---------------------------------------------------------------------------
(* Properties of the entry's record in hass.data and of its platforms *)

\* C27: whenever async_setup_entry raises ConfigEntryNotReady, because the health check
\* or the first refresh failed, hass.data[DOMAIN] exists and holds no record for the
\* entry's id
C27_NoResidue ==
    hass.pc = "done" /\ hass.result = "ConfigEntryNotReady" =>
        /\ hass.domain
        /\ EntryId \notin DOMAIN hass.data

\* C28: in a setup that returned True each of the platforms sensor and calendar has
\* been forwarded at most once
C28_ForwardedOnce ==
    hass.pc = "done" /\ hass.result = "True" =>
        \A platform \in {"sensor", "calendar"} : Occurrences(hass.forwarded, platform) <= 1

\* the records of hass.data[DOMAIN] before the operation, without the entry's own
OthersBefore == [k \in DOMAIN hass.before.data \ {EntryId} |-> hass.before.data[k]]

\* C29: when async_unload_entry has run and unloading the platforms failed, it
\* returned False, no coordinator was shut down and hass.data is as it was; when it
\* succeeded it returned True, the entry's coordinator was shut down once, the entry's
\* record is gone, the records of the other entries are as they were, and the DOMAIN key
\* is gone exactly when no other entry remains
C29_UnloadFrame ==
    hass.last = "unload" /\ hass.pc \in {"done", "unloaded"} =>
        IF ~hass.unload_ok
            THEN /\ hass.returned = "False"
                 /\ hass.shutdowns = hass.before.shutdowns
                 /\ hass.data = hass.before.data
                 /\ hass.domain = hass.before.domain
            ELSE /\ hass.returned = "True"
                 /\ EntryId \in DOMAIN hass.before.data
                 /\ hass.shutdowns
                      = Append(hass.before.shutdowns, hass.before.data[EntryId].coordinator.id)
                 /\ hass.data = OthersBefore
                 /\ hass.domain <=> OthersBefore # <<>>

\* C29 witness: the entry was unloaded while it was the only one: its coordinator is
\* shut down and hass.data has lost the DOMAIN key
C29_Witness ==
    /\ hass.last = "unload"
    /\ hass.pc = "unloaded"
    /\ hass.returned = "True"
    /\ DOMAIN hass.before.data = {EntryId}
    /\ hass.shutdowns = <<1>>
    /\ hass.data = <<>>
    /\ ~hass.domain

\* the coordinators made for the entry that have not been shut down
LiveCoordinators == {n \in 1..hass.made : \A i \in 1..Len(hass.shutdowns) : hass.shutdowns[i] # n}

\* C30: whatever the host has run on the entry, at most one coordinator made for the
\* entry has not been shut down
C30_OneLiveCoordinator == Cardinality(LiveCoordinators) <= 1

==========================================================================
